---- MODULE Spec2Model ----
(***************************************************************************)
(* Sky Jump: the simulation core of the vertical platformer.               *)
(*                                                                         *)
(* Fixed-point conventions                                                 *)
(*   lengths      milli-pixels   (1 px = MilliPerUnit)                     *)
(*   velocities   pixels per second                                        *)
(*   times        milliseconds                                             *)
(*   multipliers, score, difficulty factor     tenths (1.0 = One)          *)
(*   type weights hundredths                                               *)
(* With diff_time in milliseconds, "pos += velocity * diff_time" of the    *)
(* source is exact in milli-pixels.                                        *)
(***************************************************************************)
EXTENDS Integers, Sequences, FiniteSets, TLC

VARIABLES
    player,             \* Game.player            (Player)
    camera,             \* Game.camera            (Camera)
    sm,                 \* Game.score_manager     (ScoreManager)
    dm,                 \* Game.difficulty_manager (DifficultyManager)
    pm,                 \* Game.platform_manager  (PlatformManager)
    pum,                \* Game.powerup_manager   (PowerupManager)
    rng,                \* state of the random module's generator
    now,                \* the wall clock, what time.time() returns
    frame_accumulator,  \* Game.frame_accumulator
    last_update,        \* Game.last_update
    is_game_over,       \* Game.is_game_over
    ev,                 \* what the last operation did (observation only)
    pickups,            \* how many powerups have been collected (observation only)
    twin,               \* a second run of the simulation, fed the same elapsed times
    is_paused,          \* Game.is_paused
    current_state,      \* Game.current_state
    game_loop_running,  \* Game.game_loop_running
    boss_key_active,    \* Game.boss_key_active
    previous_state,     \* Game.previous_state
    save_data,          \* what pickle.load gives for the save slot
    leaderboard         \* Game.leaderboard      (Leaderboard) and its file

\* the state of Game around the simulation, the save slot and the leaderboard
shell == <<is_paused, current_state, game_loop_running, boss_key_active,
           previous_state, save_data, leaderboard>>

vars == <<player, camera, sm, dm, pm, pum, rng, now, frame_accumulator,
          last_update, is_game_over, ev, pickups, twin, shell>>

----------------------------------------------------------------------------
(* constants.py *)

MilliPerUnit == 1000
One == 10

WINDOW_WIDTH == 400
WINDOW_HEIGHT == 800
FPS == 60
FRAME_TIME == MilliPerUnit \div FPS
MOVE_SPEED == 300
JUMP_FORCE == -350
GRAVITY == 10
PLAYER_WIDTH == 40
PLAYER_HEIGHT == 40
BREAK_TIMER == 100
PLATFORM_HEIGHT == 10
POWERUP_SIZE == 30

TYPE_NORMAL == "normal"
TYPE_MOVING == "moving"
TYPE_BREAKING == "breaking"
TYPE_WRAPPING == "wrapping"
TYPE_ROCKET == "rocket"
TYPE_MULTIPLIER == "multiplier"

\* a length of n pixels
Px(n) == n * MilliPerUnit

\* (JUMP_FORCE_PER_FRAME ** 2) / (2 * GRAVITY_PER_FRAME), in milli-pixels
MAX_JUMP_HEIGHT ==
    ((JUMP_FORCE * FRAME_TIME) * (JUMP_FORCE * FRAME_TIME))
        \div (2 * GRAVITY * FRAME_TIME)

\* the value of an attribute that holds None
None == -1000000

Min(a, b) == IF a <= b THEN a ELSE b
Max(a, b) == IF a >= b THEN a ELSE b
\* a local variable: the value x is computed once and named in F
Bind(x, F(_)) == CHOOSE y \in {F(v) : v \in {x}} : TRUE

Abs(a) == IF a >= 0 THEN a ELSE -a

----------------------------------------------------------------------------
(* The random module: a multiplicative congruential generator stands for   *)
(* the Mersenne Twister.  A draw reads the state; every draw advances it.  *)
(* The seed is a hidden input, drawn at Init from 1..MaxSeed.              *)

RngMod == 31
RngMul == 3
MaxSeed == 3

RngNext(r) == (RngMul * r) % RngMod

\* random.uniform(lo, hi) = lo + (hi - lo) * random(), random() = (r-1)/(RngMod-1)
RandF(r, lo, hi) == lo + ((hi - lo) * (r - 1)) \div (RngMod - 1)

\* random.choice(seq)
RandChoice(r, seq) == seq[1 + (Len(seq) * (r - 1)) \div (RngMod - 1)]

----------------------------------------------------------------------------
(* player_class.py *)

NoBoost == [speed |-> One, jump |-> One, gravity |-> One]

\* Player.__init__ / Player.reset (both give the same state)
PlayerNew ==
    [x |-> Px(WINDOW_WIDTH \div 2),
     y |-> Px(WINDOW_HEIGHT - PLAYER_HEIGHT),
     width |-> Px(PLAYER_WIDTH),
     height |-> Px(PLAYER_HEIGHT),
     x_velocity |-> 0,
     y_velocity |-> 0,
     is_jumping |-> FALSE,
     is_on_ground |-> TRUE,
     double_jump_enabled |-> FALSE,
     is_on_second_jump |-> FALSE,
     moving_left |-> FALSE,
     moving_right |-> FALSE,
     boost_multipliers |-> NoBoost]

\* a jump whose second impulse does not look at is_on_second_jump
PlayerJumpAgain(p) ==
    IF ~p.is_jumping
    THEN [p EXCEPT !.y_velocity = (JUMP_FORCE * p.boost_multipliers.jump) \div One,
                   !.is_jumping = TRUE,
                   !.is_on_second_jump = FALSE]
    ELSE IF p.double_jump_enabled
    THEN [p EXCEPT !.y_velocity = (JUMP_FORCE * p.boost_multipliers.jump) \div One,
                   !.is_on_second_jump = TRUE]
    ELSE p

\* Player.jump
PlayerJump(p) ==
    IF ~p.is_jumping
    THEN [p EXCEPT !.y_velocity = (JUMP_FORCE * p.boost_multipliers.jump) \div One,
                   !.is_jumping = TRUE,
                   !.is_on_second_jump = FALSE]
    ELSE IF p.double_jump_enabled /\ ~p.is_on_second_jump
    THEN [p EXCEPT !.y_velocity = (JUMP_FORCE * p.boost_multipliers.jump) \div One,
                   !.is_on_second_jump = TRUE]
    ELSE p

\* Player.start_move_left
PlayerStartMoveLeft(p) ==
    [p EXCEPT !.moving_left = TRUE,
              !.x_velocity = -((MOVE_SPEED * p.boost_multipliers.speed) \div One)]

\* a stop that zeroes the velocity whatever else is held
PlayerStopMoveLeftAlways(p) == [p EXCEPT !.moving_left = FALSE, !.x_velocity = 0]

\* Player.stop_move_left
PlayerStopMoveLeft(p) ==
    IF ~p.moving_right
    THEN [p EXCEPT !.moving_left = FALSE, !.x_velocity = 0]
    ELSE [p EXCEPT !.moving_left = FALSE]

\* Player.start_move_right
PlayerStartMoveRight(p) ==
    [p EXCEPT !.moving_right = TRUE,
              !.x_velocity = (MOVE_SPEED * p.boost_multipliers.speed) \div One]

\* a stop that clears the flag and never touches the velocity
PlayerStopMoveRightFlagOnly(p) == [p EXCEPT !.moving_right = FALSE]

\* Player.stop_move_right
PlayerStopMoveRight(p) ==
    IF ~p.moving_left
    THEN [p EXCEPT !.moving_right = FALSE, !.x_velocity = 0]
    ELSE [p EXCEPT !.moving_right = FALSE]

\* Player.activate_double_jump
PlayerActivateDoubleJump(p) == [p EXCEPT !.double_jump_enabled = TRUE]

\* a ground clamp that leaves is_jumping as it is
PlayerGroundKeepsJumping(p) ==
    LET ground_y == Px(WINDOW_HEIGHT) - p.height
    IN  IF p.y >= ground_y
        THEN [p EXCEPT !.y = ground_y, !.y_velocity = 0, !.is_on_ground = TRUE]
        ELSE p

\* Player.update, the ground clamp of it
PlayerGround(p) ==
    LET ground_y == Px(WINDOW_HEIGHT) - p.height
    IN  IF p.y >= ground_y
        THEN [p EXCEPT !.y = ground_y, !.y_velocity = 0,
                       !.is_jumping = FALSE, !.is_on_ground = TRUE]
        ELSE p

\* Player.update, the horizontal screen wrap of it
PlayerWrap(p) ==
    LET canvas_width == Px(WINDOW_WIDTH)
    IN  IF p.x + p.width < 0 THEN [p EXCEPT !.x = canvas_width]
        ELSE IF p.x > canvas_width THEN [p EXCEPT !.x = -p.width]
        ELSE p

\* Player.update
PlayerUpdate(p, diff_time) ==
    LET dt == Min(diff_time, MilliPerUnit \div 30)
        gravity_force == (GRAVITY * p.boost_multipliers.gravity) \div One
        vy == p.y_velocity + gravity_force
        p1 == [p EXCEPT !.is_on_ground = FALSE,
                        !.y_velocity = vy,
                        !.is_jumping = IF vy > 0 THEN TRUE ELSE p.is_jumping,
                        !.x = p.x + p.x_velocity * dt,
                        !.y = p.y + vy * dt]
    IN  PlayerWrap(PlayerGround(p1))

\* Player.handle_boost
PlayerHandleBoost(p, boost) ==
    [p EXCEPT !.boost_multipliers = [@ EXCEPT ![boost.type] = boost.multiplier]]

\* an expiry that leaves the body's factor as the boost set it
PlayerHandleBoostExpireKeeps(p, boost) == p

\* Player.handle_boost_expire
PlayerHandleBoostExpire(p, boost) ==
    [p EXCEPT !.boost_multipliers = [@ EXCEPT ![boost.type] = One]]

----------------------------------------------------------------------------
(* camera_class.py *)

SCREEN_BOTTOM == 2
LERP_DIV == 10

CameraNew == [y |-> 0, target_y |-> 0]

\* Camera.update: lerp_speed = 0.1, player_screen_y = WINDOW_HEIGHT * (1 - SCREEN_BOTTOM)
CameraUpdate(c, p) ==
    LET player_screen_y == (Px(WINDOW_HEIGHT) * (One - SCREEN_BOTTOM)) \div One
        target_y == p.y - player_screen_y
    IN  [y |-> c.y + (target_y - c.y) \div LERP_DIV, target_y |-> target_y]

----------------------------------------------------------------------------
(* scores.py *)

SCORE_THRESHOLD == 100
BOOST_THRESHOLD == 10
BOOST_DURATION_MIN == 25
BOOST_DURATION_MAX == 45
SPEED_BOOST == 12
JUMP_BOOST == 12
GRAVITY_BOOST == 8

\* ScoreManager.BOOSTS_TYPES, its keys in dictionary order and their multipliers
BoostKinds == <<"speed", "jump", "gravity">>
BoostMultiplier(kind) ==
    CASE kind = "speed" -> SPEED_BOOST
      [] kind = "jump" -> JUMP_BOOST
      [] kind = "gravity" -> GRAVITY_BOOST

\* ScoreManager.__init__ / ScoreManager.reset
ScoreManagerNew ==
    [score |-> 0,
     highest_height |-> Px(WINDOW_HEIGHT),
     last_milestone |-> 0,
     active_boosts |-> {},
     multiplier |-> One,
     multiplier_end_time |-> None]

\* Boost.__init__: start_time = time.time()
BoostNew(boost_type, multiplier, duration, t) ==
    [type |-> boost_type, multiplier |-> multiplier, start_time |-> t,
     duration |-> duration, is_active |-> TRUE]

\* the keys of the dictionary active_boosts
ActiveKinds(boosts) == {b.type : b \in boosts}

\* active_boosts[boost.type] = boost
DictPut(boosts, boost) == {b \in boosts : b.type # boost.type} \cup {boost}

\* a reward that chooses among all kinds, active or not
AvailableBoostAll(boosts) == BoostKinds

\* the kinds trigger_boost_reward may choose from, in BOOSTS_TYPES order
AvailableBoost(boosts) ==
    SelectSeq(BoostKinds, LAMBDA k : k \notin ActiveKinds(boosts))

\* a reward that grants nothing while any boost is active
TriggerBoostRewardSingle(s, p, t, r) ==
    LET available_boost == AvailableBoost(s.active_boosts)
    IN  IF s.active_boosts # {}
        THEN [sm |-> s, player |-> p, rng |-> r, granted |-> {}]
        ELSE LET boost_type == RandChoice(r, available_boost)
                 r1 == RngNext(r)
                 boost_duration ==
                     RandF(r1, BOOST_DURATION_MIN * MilliPerUnit,
                               BOOST_DURATION_MAX * MilliPerUnit)
                 boost == BoostNew(boost_type, BoostMultiplier(boost_type),
                                   boost_duration, t)
             IN  [sm |-> [s EXCEPT !.active_boosts = DictPut(@, boost)],
                  player |-> PlayerHandleBoost(p, boost),
                  rng |-> RngNext(r1),
                  granted |-> {boost}]

\* ScoreManager.trigger_boost_reward; the on_boost callback is Player.handle_boost
TriggerBoostReward(s, p, t, r) ==
    LET available_boost == AvailableBoost(s.active_boosts)
    IN  IF available_boost = << >>
        THEN [sm |-> s, player |-> p, rng |-> r, granted |-> {}]
        ELSE LET boost_type == RandChoice(r, available_boost)
                 r1 == RngNext(r)
                 boost_duration ==
                     RandF(r1, BOOST_DURATION_MIN * MilliPerUnit,
                               BOOST_DURATION_MAX * MilliPerUnit)
                 boost == BoostNew(boost_type, BoostMultiplier(boost_type),
                                   boost_duration, t)
             IN  [sm |-> [s EXCEPT !.active_boosts = DictPut(@, boost)],
                  player |-> PlayerHandleBoost(p, boost),
                  rng |-> RngNext(r1),
                  granted |-> {boost}]

\* a threshold counted from the score itself and met with equality
PassedThresholdFromScore(score, relative_height) ==
    relative_height * One >= score * SCORE_THRESHOLD * MilliPerUnit

\* ScoreManager.update, "if relative_height > (self.score + 1) * SCORE_THRESHOLD"
PassedThreshold(score, relative_height) ==
    relative_height * One > (score + One) * SCORE_THRESHOLD * MilliPerUnit

\* a point that overwrites the score instead of adding to it
AddPointAssign(score, multiplier) == multiplier

\* ScoreManager.update, "self.score += 1 * self.multiplier"
AddPoint(score, multiplier) == score + multiplier

\* ScoreManager.update, "current_time - boost.start_time >= boost.duration"
BoostExpired(boost, t) == t - boost.start_time >= boost.duration

\* apply on_boost_expire (Player.handle_boost_expire) for every boost of a set
RECURSIVE ExpireAll(_, _)
ExpireAll(p, boosts) ==
    IF boosts = {} THEN p
    ELSE LET b == CHOOSE x \in boosts : TRUE
         IN  ExpireAll(PlayerHandleBoostExpire(p, b), boosts \ {b})

\* ScoreManager.update(player_height) with time.time() = t
\* result: the score manager, the player (through the callbacks), the generator,
\* and what happened: whether the height check passed, the boosts granted and expired
ScoreUpdate(s, p, player_height, t, r) ==
    IF player_height + Px(PLAYER_HEIGHT) > s.highest_height
    THEN [sm |-> s, player |-> p, rng |-> r, passed |-> FALSE,
          rewarded |-> FALSE, granted |-> {}, expired |-> {}]
    ELSE LET highest == player_height + Px(PLAYER_HEIGHT)
             relative_height == Abs(highest - Px(WINDOW_HEIGHT))
             score1 == IF PassedThreshold(s.score, relative_height)
                       THEN AddPoint(s.score, s.multiplier)
                       ELSE s.score
             s1 == [s EXCEPT !.highest_height = highest, !.score = score1]
             rewarded == (s.score \div (BOOST_THRESHOLD * One))
                            # (score1 \div (BOOST_THRESHOLD * One))
         IN  Bind(IF rewarded THEN TriggerBoostReward(s1, p, t, r)
                  ELSE [sm |-> s1, player |-> p, rng |-> r, granted |-> {}],
                  LAMBDA g :
             LET expired_boosts ==
                     {b \in g.sm.active_boosts : BoostExpired(b, t)}
                 p2 == ExpireAll(g.player, expired_boosts)
                 s2 == [g.sm EXCEPT !.active_boosts = @ \ expired_boosts]
                 s3 == IF s2.multiplier_end_time # None
                          /\ s2.multiplier_end_time # 0
                          /\ t >= s2.multiplier_end_time
                       THEN [s2 EXCEPT !.multiplier = One,
                                       !.multiplier_end_time = None]
                       ELSE s2
             IN  [sm |-> s3, player |-> p2, rng |-> g.rng, passed |-> TRUE,
                  rewarded |-> rewarded, granted |-> g.granted,
                  expired |-> expired_boosts])

\* ScoreManager.activate_multiplier with time.time() = t
ActivateMultiplier(s, multiplier, duration, t) ==
    [s EXCEPT !.multiplier = multiplier, !.multiplier_end_time = t + duration]

----------------------------------------------------------------------------
(* difficulty.py *)

DIFFICULTY_THRESHOLD == 10
MAX_DIFFICULTY_FACTOR == 10
FACTOR_INCREMENT == 2
MAX_DIFFICULTY_LEVEL == MAX_DIFFICULTY_FACTOR \div FACTOR_INCREMENT

\* weights without the floor of the normal kind
CalculateTypeWeightsNoFloor(factor) ==
    <<100 - 10 * factor,
      Min(40, 4 * factor),
      Min(40, 4 * factor),
      Min(20, 2 * factor)>>

\* DifficultyManager.calculate_type_weights, in hundredths, in dictionary order
\* normal, moving, wrapping, breaking
TypeOrder == <<TYPE_NORMAL, TYPE_MOVING, TYPE_WRAPPING, TYPE_BREAKING>>
CalculateTypeWeights(factor) ==
    <<Max(30, 100 - 10 * factor),
      Min(40, 4 * factor),
      Min(40, 4 * factor),
      Min(20, 2 * factor)>>

\* parameters whose spacing range is not capped
PlatformParamsUncapped(factor) ==
    [width_range |-> <<((17 - factor) * Px(PLAYER_WIDTH)) \div One,
                       ((20 - factor) * Px(PLAYER_WIDTH)) \div One>>,
     spacing_range |-> <<((4 + factor) * MAX_JUMP_HEIGHT) \div One,
                         ((6 + factor) * MAX_JUMP_HEIGHT) \div One>>,
     type_weights |-> CalculateTypeWeights(factor)]

\* DifficultyManager.update_platform_params, the dictionary it builds
PlatformParams(factor) ==
    [width_range |-> <<((17 - factor) * Px(PLAYER_WIDTH)) \div One,
                       ((20 - factor) * Px(PLAYER_WIDTH)) \div One>>,
     spacing_range |-> <<(Min(4 + factor, 7) * MAX_JUMP_HEIGHT) \div One,
                         (Min(6 + factor, One) * MAX_JUMP_HEIGHT) \div One>>,
     type_weights |-> CalculateTypeWeights(factor)]

\* DifficultyManager.__init__ / DifficultyManager.reset
DifficultyManagerNew ==
    [difficulty_level |-> 0, difficulty_factor |-> 0,
     platform_params |-> PlatformParams(0)]

\* a level without the cap of MAX_DIFFICULTY_LEVEL
LevelOfUncapped(score) == score \div (DIFFICULTY_THRESHOLD * One)

\* "min(score // DIFFICULTY_THRESHOLD, MAX_DIFFICULTY_LEVEL)"
LevelOf(score) ==
    Min(score \div (DIFFICULTY_THRESHOLD * One), MAX_DIFFICULTY_LEVEL)

\* a factor that grows by two increments per level
FactorStepTwice(factor) ==
    Min(factor + 2 * FACTOR_INCREMENT, MAX_DIFFICULTY_FACTOR)

\* "min(difficulty_factor + FACTOR_INCREMENT, MAX_DIFFICULTY_FACTOR)"
FactorStep(factor) == Min(factor + FACTOR_INCREMENT, MAX_DIFFICULTY_FACTOR)

\* an update that raises the factor on every call past the threshold, whether
\* or not the level changed
UpdateDifficultyEveryCall(d, score) ==
    IF score < DIFFICULTY_THRESHOLD * One
    THEN [dm |-> d, updated |-> FALSE]
    ELSE LET factor == Min(d.difficulty_factor + FACTOR_INCREMENT,
                           MAX_DIFFICULTY_FACTOR)
         IN  [dm |-> [difficulty_level |->
                          Min(score \div (DIFFICULTY_THRESHOLD * One),
                              MAX_DIFFICULTY_LEVEL),
                      difficulty_factor |-> factor,
                      platform_params |-> PlatformParams(factor)],
              updated |-> TRUE]

\* DifficultyManager.update_difficulty(score)
\* result: the manager and whether on_param_update fired
UpdateDifficulty(d, score) ==
    IF score < DIFFICULTY_THRESHOLD * One
    THEN [dm |-> d, updated |-> FALSE]
    ELSE LET old_difficulty_level == d.difficulty_level
             level == LevelOf(score)
         IN  IF old_difficulty_level # level
             THEN LET factor == FactorStep(d.difficulty_factor)
                  IN  [dm |-> [difficulty_level |-> level,
                               difficulty_factor |-> factor,
                               platform_params |-> PlatformParams(factor)],
                       updated |-> TRUE]
             ELSE [dm |-> [d EXCEPT !.difficulty_level = level],
                   updated |-> FALSE]

\* random.choices(keys, weights)[0]: the first key whose cumulative weight
\* exceeds random() * total
RECURSIVE PickWeighted(_, _, _)
PickWeighted(weights, i, x) ==
    IF i >= Len(weights) \/ x < weights[i] THEN i
    ELSE PickWeighted(weights, i + 1, x - weights[i])

\* DifficultyManager.calculate_platform_type
CalculatePlatformType(d, r) ==
    LET weights == CalculateTypeWeights(d.difficulty_factor)
        total == weights[1] + weights[2] + weights[3] + weights[4]
        x == (total * (r - 1)) \div (RngMod - 1)
    IN  TypeOrder[PickWeighted(weights, 1, x)]

----------------------------------------------------------------------------
(* platform_class.py: Platform *)

LANDING_TOLERANCE == 10
RETENTION_MARGIN == 300
DEATH_MARGIN == 50

\* Platform.__init__; a moving or wrapping platform draws direction and speed
\* (randf(0.2, 0.8) * MOVE_SPEED, randf(0.3, 1.0) * MOVE_SPEED)
PlatformNew(x, y, platform_type, platform_width, r) ==
    LET base == [x |-> x, y |-> y, type |-> platform_type,
                 width |-> platform_width, velocity |-> 0,
                 is_active |-> TRUE, break_timer |-> None]
        direction == RandChoice(r, <<1, -1>>)
        r1 == RngNext(r)
    IN  IF platform_type = TYPE_MOVING
        THEN [platform |->
                [base EXCEPT !.velocity =
                    direction * RandF(r1, (2 * MOVE_SPEED) \div One,
                                          (8 * MOVE_SPEED) \div One)],
              rng |-> RngNext(r1)]
        ELSE IF platform_type = TYPE_WRAPPING
        THEN [platform |->
                [base EXCEPT !.velocity =
                    direction * RandF(r1, (3 * MOVE_SPEED) \div One,
                                          (One * MOVE_SPEED) \div One)],
              rng |-> RngNext(r1)]
        ELSE [platform |-> base, rng |-> r]

\* a movement that reverses at an edge and keeps the step it took
PlatformMoveKeepsStep(pl, diff_time) ==
    LET canvas_width == Px(WINDOW_WIDTH)
        x1 == pl.x + pl.velocity * diff_time
    IN  IF pl.type = TYPE_WRAPPING
        THEN IF x1 + pl.width < 0 THEN [pl EXCEPT !.x = canvas_width]
             ELSE IF x1 > canvas_width THEN [pl EXCEPT !.x = -pl.width]
             ELSE [pl EXCEPT !.x = x1]
        ELSE IF pl.type = TYPE_MOVING
        THEN IF x1 + pl.width >= canvas_width \/ x1 <= 0
             THEN [pl EXCEPT !.x = x1, !.velocity = -pl.velocity]
             ELSE [pl EXCEPT !.x = x1]
        ELSE pl

\* Platform.update, the movement of a moving or wrapping platform
PlatformMove(pl, diff_time) ==
    LET canvas_width == Px(WINDOW_WIDTH)
        x1 == pl.x + pl.velocity * diff_time
    IN  IF pl.type = TYPE_WRAPPING
        THEN IF x1 + pl.width < 0 THEN [pl EXCEPT !.x = canvas_width]
             ELSE IF x1 > canvas_width THEN [pl EXCEPT !.x = -pl.width]
             ELSE [pl EXCEPT !.x = x1]
        ELSE IF pl.type = TYPE_MOVING
        THEN IF x1 + pl.width >= canvas_width \/ x1 <= 0
             THEN [pl EXCEPT !.velocity = -pl.velocity]
             ELSE [pl EXCEPT !.x = x1]
        ELSE pl

\* an update that counts down but never breaks the platform
PlatformUpdateNoBreak(pl, diff_time) ==
    IF ~pl.is_active THEN pl
    ELSE IF pl.type = TYPE_BREAKING /\ pl.break_timer # None
    THEN PlatformMove([pl EXCEPT !.break_timer = @ - diff_time], diff_time)
    ELSE PlatformMove(pl, diff_time)

\* Platform.update
PlatformUpdate(pl, diff_time) ==
    IF ~pl.is_active THEN pl
    ELSE IF pl.type = TYPE_BREAKING /\ pl.break_timer # None
    THEN LET timer == pl.break_timer - diff_time
         IN  IF timer <= 0
             THEN [pl EXCEPT !.break_timer = timer, !.is_active = FALSE]
             ELSE PlatformMove([pl EXCEPT !.break_timer = timer], diff_time)
    ELSE PlatformMove(pl, diff_time)

\* a vertical test that leaves out both ends of the band
InBandOpen(player_bottom, platform_top) ==
    player_bottom > platform_top
        /\ player_bottom < platform_top + Px(LANDING_TOLERANCE)

\* Platform.check_collision, the vertical test
InBand(player_bottom, platform_top) ==
    player_bottom >= platform_top
        /\ player_bottom <= platform_top + Px(LANDING_TOLERANCE)

\* Platform.check_collision, the horizontal overlap
OverlapAmount(pl, p) ==
    Min(pl.x + pl.width, p.x + p.width) - Max(pl.x, p.x)

\* Platform.check_collision, "overlap_amount >= player.width / 3"
EnoughOverlap(pl, p) == 3 * OverlapAmount(pl, p) >= p.width

\* a direction test that lets a body at rest through
NotFallingStrict(p) == p.y_velocity < 0

\* Platform.check_collision, "if player.y_velocity <= 0: return False"
NotFalling(p) == p.y_velocity <= 0

\* Platform.check_collision: whether it returns True
Lands(pl, p) ==
    /\ pl.is_active
    /\ ~NotFalling(p)
    /\ InBand(p.y + p.height, pl.y)
    /\ EnoughOverlap(pl, p)

\* a collision check that reports the landing but leaves is_on_ground alone
CheckCollisionNoGround(pl, p) ==
    [hit |-> Lands(pl, p), platform |-> pl, player |-> p]

\* a collision check that starts the timer at every landing
CheckCollisionRestart(pl, p) ==
    IF Lands(pl, p)
    THEN [hit |-> TRUE,
          platform |-> IF pl.type = TYPE_BREAKING
                       THEN [pl EXCEPT !.break_timer = BREAK_TIMER]
                       ELSE pl,
          player |-> [p EXCEPT !.is_on_ground = TRUE]]
    ELSE [hit |-> FALSE, platform |-> pl, player |-> p]

\* Platform.check_collision: the result and what it does to platform and player
CheckCollision(pl, p) ==
    IF Lands(pl, p)
    THEN [hit |-> TRUE,
          platform |-> IF pl.type = TYPE_BREAKING /\ pl.break_timer = None
                       THEN [pl EXCEPT !.break_timer = BREAK_TIMER]
                       ELSE pl,
          player |-> [p EXCEPT !.is_on_ground = TRUE]]
    ELSE [hit |-> FALSE, platform |-> pl, player |-> p]

----------------------------------------------------------------------------
(* platform_class.py: PlatformManager *)

\* PlatformManager.__init__ with its difficulty manager d
PlatformManagerNew(d) ==
    [platforms |-> << >>,
     highest_platform |-> Px(WINDOW_HEIGHT),
     min_platform_spacing |-> (MAX_JUMP_HEIGHT * 6) \div One,
     max_platform_spacing |-> (MAX_JUMP_HEIGHT * 9) \div One,
     platform_params |-> d.platform_params]

\* PlatformManager.update_generation_params
UpdateGenerationParams(m, new_params) ==
    [m EXCEPT !.platform_params = new_params,
              !.min_platform_spacing = new_params.spacing_range[1],
              !.max_platform_spacing = new_params.spacing_range[2]]

\* PlatformManager.generate_platforms(platform_y)
\* result: the platform list and the generator
GeneratePlatforms(platforms, platform_y, params, d, r) ==
    LET platform_width == RandF(r, params.width_range[1], params.width_range[2])
        r1 == RngNext(r)
        available_width == Px(WINDOW_WIDTH) - platform_width
        platform_x == RandF(r1, 0, available_width)
        r2 == RngNext(r1)
        platform_type == CalculatePlatformType(d, r2)
    IN  Bind(PlatformNew(platform_x, platform_y, platform_type,
                         platform_width, RngNext(r2)),
             LAMBDA made :
                [platforms |-> Append(platforms, made.platform),
                 rng |-> made.rng])

\* the loop of generate_initial_platforms
RECURSIVE InitialLoop(_, _, _, _, _)
InitialLoop(m, current_height, platforms, d, r) ==
    IF current_height > -((Px(WINDOW_HEIGHT) * 2) \div One)
    THEN Bind(current_height
                - RandF(r, m.min_platform_spacing, m.max_platform_spacing),
              LAMBDA next :
         Bind(GeneratePlatforms(platforms, next, m.platform_params, d, RngNext(r)),
              LAMBDA g :
         InitialLoop(m, next, g.platforms, d, g.rng)))
    ELSE [platforms |-> platforms, highest |-> current_height, rng |-> r]

\* PlatformManager.generate_initial_platforms
GenerateInitialPlatforms(m, d, r) ==
    Bind(Px(WINDOW_HEIGHT) - MAX_JUMP_HEIGHT + Px(20), LAMBDA first :
    Bind(GeneratePlatforms(m.platforms, first, m.platform_params, d, r), LAMBDA g :
    Bind(InitialLoop(m, first, g.platforms, d, g.rng), LAMBDA l :
        [pm |-> [m EXCEPT !.platforms = l.platforms,
                          !.highest_platform = l.highest],
         rng |-> l.rng])))

\* min([platform.y for platform in platforms])
RECURSIVE MinY(_)
MinY(platforms) ==
    IF Len(platforms) = 1 THEN platforms[1].y
    ELSE Min(platforms[1].y, MinY(Tail(platforms)))

\* max(platform.y for platform in platforms)
RECURSIVE MaxY(_)
MaxY(platforms) ==
    IF Len(platforms) = 1 THEN platforms[1].y
    ELSE Max(platforms[1].y, MaxY(Tail(platforms)))

\* a generator that looks only half a screen ahead
NeedsPlatformHalfScreen(highest_platform, player_height) ==
    highest_platform > player_height - Px(WINDOW_HEIGHT) \div 2

\* check_platforms, "while self.highest_platform > player_height - WINDOW_HEIGHT"
NeedsPlatform(highest_platform, player_height) ==
    highest_platform > player_height - Px(WINDOW_HEIGHT)

\* the loop of check_platforms
RECURSIVE GenerateLoop(_, _, _, _, _, _)
GenerateLoop(m, highest, platforms, player_height, d, r) ==
    IF NeedsPlatform(highest, player_height)
    THEN Bind(highest - RandF(r, m.min_platform_spacing, m.max_platform_spacing),
              LAMBDA next_platform :
         Bind(GeneratePlatforms(platforms, next_platform, m.platform_params,
                                d, RngNext(r)),
              LAMBDA g :
         GenerateLoop(m, next_platform, g.platforms, player_height, d, g.rng)))
    ELSE [platforms |-> platforms, highest |-> highest, rng |-> r]

\* PlatformManager.check_platforms(player_height)
CheckPlatforms(m, d, player_height, r) ==
    IF m.platforms = << >>
    THEN GenerateInitialPlatforms(m, d, r)
    ELSE Bind(GenerateLoop(m, MinY(m.platforms), m.platforms,
                           player_height, d, r),
              LAMBDA l :
                [pm |-> [m EXCEPT !.platforms = l.platforms,
                                  !.highest_platform = l.highest],
                 rng |-> l.rng])

\* a cleanup that keeps a whole screen below the body
KeepPlatformScreen(pl, player_height) ==
    pl.y < player_height + Px(WINDOW_HEIGHT)

\* a cleanup with the comparison the wrong way round
KeepPlatformBelow(pl, player_height) ==
    pl.y > player_height + Px(RETENTION_MARGIN)

\* cleanup_platforms, "if platform.y < cleanup_bottom" keeps the platform
KeepPlatform(pl, player_height) == pl.y < player_height + Px(RETENTION_MARGIN)

\* PlatformManager.cleanup_platforms(player_height)
CleanupPlatforms(platforms, player_height) ==
    SelectSeq(platforms, LAMBDA pl : KeepPlatform(pl, player_height))

\* PlatformManager.update(player_height, diff_time)
PlatformManagerUpdate(m, d, player_height, diff_time, r) ==
    Bind(CheckPlatforms(m, d, player_height, r), LAMBDA c :
    Bind([i \in 1..Len(c.pm.platforms) |->
            PlatformUpdate(c.pm.platforms[i], diff_time)], LAMBDA updated :
    Bind(CleanupPlatforms(updated, player_height), LAMBDA kept :
        [pm |-> [c.pm EXCEPT !.platforms = kept], rng |-> c.rng,
         dropped |-> Len(updated) - Len(kept)])))

\* PlatformManager.check_player_death: whether on_death fires.
\* max() of an empty list raises ValueError, reported as crashed.
CheckPlayerDeath(m, p) ==
    IF m.platforms = << >>
    THEN [died |-> FALSE, crashed |-> TRUE]
    ELSE [died |-> ~p.is_on_ground /\ p.y > MaxY(m.platforms) + Px(DEATH_MARGIN),
          crashed |-> FALSE]

----------------------------------------------------------------------------
(* powerups.py *)

POWERUP_SPAWN_CHANCE == 30
MULTIPLIER_MIN == 15
MULTIPLIER_MAX == 30
MULTIPLIER_DURATION_MIN == 10
MULTIPLIER_DURATION_MAX == 20
POWERUP_THRESHOLD == WINDOW_HEIGHT

\* PowerupManager.__init__ / PowerupManager.reset
PowerupManagerNew ==
    [powerups |-> << >>, last_check_height |-> Px(POWERUP_THRESHOLD)]

\* Powerup.apply_effect
\* result: the player and the score manager
ApplyEffect(pw, p, s, t) ==
    IF pw.type = TYPE_ROCKET
    THEN [player |-> [p EXCEPT !.y_velocity =
                        (2 * JUMP_FORCE * p.boost_multipliers.jump) \div One],
          sm |-> s]
    ELSE [player |-> p,
          sm |-> ActivateMultiplier(s, pw.multiplier, pw.duration, t)]

\* Powerup.check_collision
PowerupCollides(pw, p) ==
    /\ ~(pw.x + Px(POWERUP_SIZE) < p.x \/ p.x + p.width < pw.x)
    /\ ~(pw.y + Px(POWERUP_SIZE) < p.y \/ p.y + p.height < pw.y)

\* PowerupManager.generate_powerup(y_position)
GeneratePowerup(powerups, y_position, r) ==
    LET powerup_x == RandF(r, 0, Px(WINDOW_WIDTH - 10))
        r1 == RngNext(r)
        powerup_type == RandChoice(r1, <<TYPE_ROCKET, TYPE_MULTIPLIER>>)
        r2 == RngNext(r1)
        r3 == RngNext(r2)
    IN  IF powerup_type = TYPE_MULTIPLIER
        THEN [powerups |-> Append(powerups,
                [x |-> powerup_x, y |-> y_position, type |-> powerup_type,
                 multiplier |-> RandF(r2, MULTIPLIER_MIN, MULTIPLIER_MAX),
                 duration |-> RandF(r3, MULTIPLIER_DURATION_MIN * MilliPerUnit,
                                        MULTIPLIER_DURATION_MAX * MilliPerUnit)]),
              rng |-> RngNext(r3)]
        ELSE [powerups |-> Append(powerups,
                [x |-> powerup_x, y |-> y_position, type |-> powerup_type,
                 multiplier |-> None, duration |-> None]),
              rng |-> r2]

\* check_powerup, "if randf(0, 1) < self.POWERUP_SPAWN_CHANCE"
SpawnRoll(r) == RandF(r, 0, 100) < POWERUP_SPAWN_CHANCE

\* check_powerup: whether a new threshold was passed
NewThreshold(current_height, last_check_height) ==
    /\ current_height < last_check_height
    /\ current_height \div Px(POWERUP_THRESHOLD)
         # last_check_height \div Px(POWERUP_THRESHOLD)

\* PowerupManager.check_powerup(player)
CheckPowerup(u, p, r) ==
    LET current_height == p.y
        g == IF NewThreshold(current_height, u.last_check_height)
             THEN IF SpawnRoll(r)
                  THEN GeneratePowerup(u.powerups,
                                       current_height - Px(WINDOW_HEIGHT), RngNext(r))
                  ELSE [powerups |-> u.powerups, rng |-> RngNext(r)]
             ELSE [powerups |-> u.powerups, rng |-> r]
    IN  [pum |-> [powerups |-> g.powerups, last_check_height |-> current_height],
         rng |-> g.rng]

\* a collection loop that applies the effect only to a falling body
RECURSIVE CollectLoopFalling(_, _, _, _, _)
CollectLoopFalling(powerups, i, p, s, t) ==
    IF i > Len(powerups) THEN [player |-> p, sm |-> s]
    ELSE IF PowerupCollides(powerups[i], p) /\ p.y_velocity > 0
    THEN Bind(ApplyEffect(powerups[i], p, s, t), LAMBDA e :
              CollectLoopFalling(powerups, i + 1, e.player, e.sm, t))
    ELSE CollectLoopFalling(powerups, i + 1, p, s, t)

\* the collection loop of PowerupManager.update, from powerup i on
RECURSIVE CollectLoop(_, _, _, _, _)
CollectLoop(powerups, i, p, s, t) ==
    IF i > Len(powerups) THEN [player |-> p, sm |-> s]
    ELSE IF PowerupCollides(powerups[i], p)
    THEN Bind(ApplyEffect(powerups[i], p, s, t), LAMBDA e :
              CollectLoop(powerups, i + 1, e.player, e.sm, t))
    ELSE CollectLoop(powerups, i + 1, p, s, t)

\* update, "if powerup.y < cleanup_bottom" keeps the powerup
KeepPowerup(pw, p) == pw.y < p.y + Px(RETENTION_MARGIN)

\* PowerupManager.update(player, score_manager) with time.time() = t
PowerupManagerUpdate(u, p, s, t, r) ==
    Bind(CheckPowerup(u, p, r), LAMBDA c :
    Bind(CollectLoop(c.pum.powerups, 1, p, s, t), LAMBDA e :
    Bind(SelectSeq(c.pum.powerups, LAMBDA pw : ~PowerupCollides(pw, p)),
         LAMBDA left :
    Bind(SelectSeq(left, LAMBDA pw : KeepPowerup(pw, p)), LAMBDA kept :
        [pum |-> [c.pum EXCEPT !.powerups = kept],
         player |-> e.player, sm |-> e.sm, rng |-> c.rng,
         collected |-> Len(c.pum.powerups) - Len(left),
         dropped |-> Len(left) - Len(kept)]))))

----------------------------------------------------------------------------
(* leaderboard.py; a name is a sequence of characters, a score a whole number
   of points *)

MAX_ENTRIES == 10
MAX_NAME_LENGTH == 10

\* the characters str.isalnum accepts, among those the model types
AlnumChars == {"a", "b", "1"}

\* Leaderboard.validate_name
ValidateName(name) ==
    /\ Len(name) <= MAX_NAME_LENGTH
    /\ \A i \in 1..Len(name) : name[i] \in AlnumChars
    /\ name # << >>

\* list.sort(reverse=True, key=score), one element: the sort is stable, so the
\* entry goes behind every entry whose score is not below its own
InsertByScore(sorted, entry) ==
    LET k == Cardinality({i \in 1..Len(sorted) : sorted[i].score >= entry.score})
    IN  SubSeq(sorted, 1, k) \o <<entry>> \o SubSeq(sorted, k + 1, Len(sorted))

\* list.sort(reverse=True, key=score)
RECURSIVE SortByScore(_)
SortByScore(entries) ==
    IF entries = << >> THEN << >>
    ELSE InsertByScore(SortByScore(SubSeq(entries, 1, Len(entries) - 1)),
                       entries[Len(entries)])

\* Leaderboard.__init__ with get_leaderboard reading scores from the file;
\* name_entry and final_score are the entry widget of the game-over screen
\* and the score its submit handler holds
LeaderboardNew(scores) ==
    [leaderboard |-> scores, is_updated |-> FALSE, file |-> scores,
     name_entry |-> FALSE, final_score |-> 0]

\* Leaderboard.is_high_score
IsHighScore(lb, score) ==
    IF Len(lb.leaderboard) < MAX_ENTRIES THEN TRUE
    ELSE score >= lb.leaderboard[MAX_ENTRIES].score

\* Leaderboard.add_score
AddScore(lb, name, score) ==
    IF ~ValidateName(name) THEN lb
    ELSE LET added == SortByScore(Append(lb.leaderboard,
                                         [name |-> name, score |-> score]))
             kept == SubSeq(added, 1, Min(Len(added), MAX_ENTRIES))
         IN  [lb EXCEPT !.leaderboard = kept,
                        !.is_updated = (kept # lb.leaderboard)]

\* Leaderboard.save_scores
SaveScores(lb) ==
    IF ~lb.is_updated THEN lb ELSE [lb EXCEPT !.file = lb.leaderboard]

----------------------------------------------------------------------------
(* game.py: Game.update *)

\* a collision loop that puts the body on the platform and lets it keep its
\* falling velocity
RECURSIVE CollisionLoopKeepsFalling(_, _, _, _, _)
CollisionLoopKeepsFalling(platforms, i, p, diff_time, landed) ==
    IF i > Len(platforms)
    THEN [player |-> p, platforms |-> platforms, landed |-> landed]
    ELSE Bind(CheckCollision(platforms[i], p), LAMBDA c :
         LET pl == c.platform
             p1 == [c.player EXCEPT !.y = pl.y - c.player.height,
                                    !.is_jumping = FALSE]
         IN  IF c.hit
             THEN Bind([platforms EXCEPT ![i] = pl], LAMBDA q :
                  Bind(p1, LAMBDA b :
                  CollisionLoopKeepsFalling(q, i + 1, b, diff_time,
                                            Append(landed, i))))
             ELSE CollisionLoopKeepsFalling(platforms, i + 1, p, diff_time,
                                            landed))

\* the collision loop of Game.update, from platform i on
\* result: the player, the platforms, and the indices of the platforms that
\* reported a landing
RECURSIVE CollisionLoop(_, _, _, _, _)
CollisionLoop(platforms, i, p, diff_time, landed) ==
    IF i > Len(platforms)
    THEN [player |-> p, platforms |-> platforms, landed |-> landed]
    ELSE Bind(CheckCollision(platforms[i], p), LAMBDA c :
         LET pl == c.platform
             p1 == [c.player EXCEPT !.y = pl.y - c.player.height,
                                    !.y_velocity = 0,
                                    !.is_jumping = FALSE]
             p2 == IF pl.type \in {TYPE_MOVING, TYPE_WRAPPING}
                   THEN [p1 EXCEPT !.x = p1.x + pl.velocity * diff_time]
                   ELSE p1
         IN  IF c.hit
             THEN Bind([platforms EXCEPT ![i] = pl], LAMBDA q :
                  Bind(p2, LAMBDA b :
                  CollisionLoop(q, i + 1, b, diff_time, Append(landed, i))))
             ELSE CollisionLoop(platforms, i + 1, p, diff_time, landed))

\* The simulation: what Game.update reads and writes
Sim == [player |-> player, camera |-> camera, sm |-> sm, dm |-> dm, pm |-> pm,
        pum |-> pum, rng |-> rng, is_game_over |-> is_game_over, ev |-> ev,
        pickups |-> pickups]

\* what one operation did
NoEvent ==
    [op |-> "new", ticks |-> 0, passed |-> FALSE, rewarded |-> FALSE,
     granted |-> {}, expired |-> {}, available |-> << >>,
     level_up |-> FALSE, updated |-> FALSE, cleanup_height |-> None,
     collected |-> 0, dropped_platforms |-> 0, dropped_powerups |-> 0,
     landed |-> << >>, landed_y |-> None,
     pre_y |-> None, pre_vy |-> None, crashed |-> FALSE, died |-> FALSE,
     pre_highest |-> None, diff_time |-> None, after_death |-> 0,
     loaded |-> FALSE, factor |-> None, weights |-> << >>, name |-> << >>]

\* Game.update, the score and difficulty steps: ScoreManager.update with the
\* body's y, then update_difficulty with the score, whose on_param_update
\* callback is PlatformManager.update_generation_params; time.time() = t
ScoreAndDifficulty(g, t) ==
    Bind(ScoreUpdate(g.sm, g.player, g.player.y, t, g.rng), LAMBDA sc :
    Bind(UpdateDifficulty(g.dm, sc.sm.score), LAMBDA df :
    LET m1 == IF df.updated
              THEN UpdateGenerationParams(g.pm, df.dm.platform_params)
              ELSE g.pm
    IN  [g EXCEPT !.player = sc.player, !.sm = sc.sm, !.dm = df.dm, !.pm = m1,
                  !.rng = sc.rng,
                  !.ev = [NoEvent EXCEPT
                            !.op = "score",
                            !.pre_highest = g.sm.highest_height,
                            !.passed = sc.passed,
                            !.rewarded = sc.rewarded,
                            !.granted = sc.granted,
                            !.expired = sc.expired,
                            !.available = AvailableBoost(g.sm.active_boosts),
                            !.level_up = df.dm.difficulty_level
                                            > g.dm.difficulty_level,
                            !.updated = df.updated]]))

\* Game.update, the world steps: PlatformManager.update with the body's y,
\* then PowerupManager.update; time.time() = t
WorldSteps(g, diff_time, t) ==
    Bind(PlatformManagerUpdate(g.pm, g.dm, g.player.y, diff_time, g.rng),
         LAMBDA pf :
    Bind(PowerupManagerUpdate(g.pum, g.player, g.sm, t, pf.rng), LAMBDA pu :
        [g EXCEPT !.pm = pf.pm, !.pum = pu.pum, !.player = pu.player,
                  !.sm = pu.sm, !.rng = pu.rng,
                  !.pickups = g.pickups + pu.collected,
                  !.ev = [g.ev EXCEPT
                            !.op = "world",
                            !.cleanup_height = g.player.y,
                            !.collected = pu.collected,
                            !.dropped_platforms = pf.dropped,
                            !.dropped_powerups = pu.dropped]]))

\* Game.update(diff_time) with time.time() = t
Update(g, diff_time, t) ==
    Bind(PlayerUpdate(g.player, diff_time), LAMBDA p1 :
    Bind([g EXCEPT !.player = p1, !.camera = CameraUpdate(g.camera, p1)],
         LAMBDA moved :
    Bind(ScoreAndDifficulty(moved, t), LAMBDA sd :
    Bind(WorldSteps(sd, diff_time, t), LAMBDA w :
    Bind(CollisionLoop(w.pm.platforms, 1, w.player, diff_time, << >>),
         LAMBDA co :
    Bind([w.pm EXCEPT !.platforms = co.platforms], LAMBDA m2 :
    Bind(CheckPlayerDeath(m2, co.player), LAMBDA death :
        [w EXCEPT !.player = co.player,
                  !.pm = m2,
                  !.is_game_over = g.is_game_over \/ death.died,
                  !.ev = [w.ev EXCEPT
                            !.op = "update",
                            !.ticks = g.ev.ticks + 1,
                            !.diff_time = diff_time,
                            !.after_death = g.ev.after_death
                                + (IF g.is_game_over THEN 1 ELSE 0),
                            !.landed = co.landed,
                            !.landed_y = IF co.landed = << >> THEN None
                                         ELSE co.platforms[co.landed[1]].y,
                            !.pre_y = w.player.y,
                            !.pre_vy = w.player.y_velocity,
                            !.crashed = g.ev.crashed \/ death.crashed,
                            !.died = death.died]])))))))

----------------------------------------------------------------------------
(* game.py: the driver *)

StartTime == 1000
MaxFrames == 56

\* the while loop of game_loop: n fixed steps, each given FRAME_TIME
RECURSIVE RunUpdates(_, _, _)
RunUpdates(g, n, t) ==
    IF n = 0 THEN g
    ELSE Bind(Update(g, FRAME_TIME, t), LAMBDA u : RunUpdates(u, n - 1, t))

\* a loop that runs one more step whenever a remainder is left
StepsDueRoundedUp(accumulator) == (accumulator + FRAME_TIME - 1) \div FRAME_TIME

\* the number of fixed steps the while loop of game_loop runs
StepsDue(accumulator) == accumulator \div FRAME_TIME

\* a new game whose body keeps the double jump cheat
NewGameDoubleJump(r) ==
    [player |-> [PlayerNew EXCEPT !.double_jump_enabled = TRUE],
     camera |-> CameraNew, sm |-> ScoreManagerNew,
     dm |-> DifficultyManagerNew, pm |-> PlatformManagerNew(DifficultyManagerNew),
     pum |-> PowerupManagerNew, rng |-> r, is_game_over |-> FALSE,
     ev |-> NoEvent, pickups |-> 0]

\* Game.start_new_game at wall-clock time t, the generator in state r
NewGame(r) ==
    [player |-> PlayerNew, camera |-> CameraNew, sm |-> ScoreManagerNew,
     dm |-> DifficultyManagerNew, pm |-> PlatformManagerNew(DifficultyManagerNew),
     pum |-> PowerupManagerNew, rng |-> r, is_game_over |-> FALSE,
     ev |-> NoEvent, pickups |-> 0]

Install(g) ==
    /\ player' = g.player
    /\ camera' = g.camera
    /\ sm' = g.sm
    /\ dm' = g.dm
    /\ pm' = g.pm
    /\ pum' = g.pum
    /\ rng' = g.rng
    /\ is_game_over' = g.is_game_over
    /\ ev' = g.ev
    /\ pickups' = g.pickups

GAME_STATE_MENU == "menu"
GAME_STATE_PLAYING == "playing"
GAME_STATE_PAUSED == "paused"

\* the value of previous_state before the boss key was ever used
NoState == "none"

\* a save slot without a file
NoFile == [exists |-> FALSE]

\* Game around the simulation once start_new_game has run: playing, the
\* loop scheduled, not paused
Playing ==
    /\ is_paused = FALSE
    /\ current_state = GAME_STATE_PLAYING
    /\ game_loop_running = TRUE
    /\ boss_key_active = FALSE
    /\ previous_state = NoState
    /\ save_data = NoFile
    /\ leaderboard = LeaderboardNew(<< >>)

Init ==
    /\ \E seed \in 1..MaxSeed :
         /\ player = NewGame(seed).player
         /\ camera = NewGame(seed).camera
         /\ sm = NewGame(seed).sm
         /\ dm = NewGame(seed).dm
         /\ pm = NewGame(seed).pm
         /\ pum = NewGame(seed).pum
         /\ rng = seed
    /\ is_game_over = FALSE
    /\ ev = NoEvent
    /\ now = StartTime
    /\ last_update = StartTime
    /\ frame_accumulator = 0
    /\ pickups = 0
    /\ twin = 0
    /\ Playing

\* "if self.last_update:" of game_loop
Truthy(t) == t # None /\ t # 0

\* Game.game_loop with time.time() = t
GameLoopAt(t) ==
    /\ now' = t
    /\ IF ~game_loop_running
       THEN UNCHANGED <<last_update, frame_accumulator, player, camera, sm, dm,
                        pm, pum, rng, is_game_over, ev, pickups>>
       ELSE /\ last_update' = t
            /\ IF /\ current_state = GAME_STATE_PLAYING
                  /\ ~is_paused
                  /\ ~is_game_over
                  /\ Truthy(last_update)
               THEN LET accumulator == frame_accumulator + (t - last_update)
                        n == StepsDue(accumulator)
                    IN  /\ frame_accumulator' = accumulator - n * FRAME_TIME
                        /\ \E g \in {RunUpdates(
                                       [Sim EXCEPT !.ev = [NoEvent EXCEPT
                                                             !.op = "idle"]],
                                       n, t)} :
                               Install(g)
               ELSE /\ ev' = [NoEvent EXCEPT !.op = "idle"]
                    /\ UNCHANGED <<frame_accumulator, player, camera, sm, dm,
                                   pm, pum, rng, is_game_over, pickups>>
    /\ UNCHANGED twin
    /\ UNCHANGED shell

\* Game.game_loop, called when the wall clock has advanced by elapsed
GameLoop(elapsed) ==
    /\ now + elapsed <= StartTime + MaxFrames * FRAME_TIME
    /\ GameLoopAt(now + elapsed)

\* the key bindings of setup_controls: jump
Jump ==
    /\ ~is_game_over
    /\ PlayerJump(player) # player
    /\ player' = PlayerJump(player)
    /\ ev' = [NoEvent EXCEPT !.op = "jump"]
    /\ UNCHANGED <<camera, sm, dm, pm, pum, rng, now, frame_accumulator,
                   last_update, is_game_over, pickups, twin>>
    /\ UNCHANGED shell

\* the key bindings of setup_controls: Shift-D
ActivateDoubleJump ==
    /\ ~player.double_jump_enabled
    /\ player' = PlayerActivateDoubleJump(player)
    /\ UNCHANGED <<camera, sm, dm, pm, pum, rng, now, frame_accumulator,
                   last_update, is_game_over, ev, pickups, twin>>
    /\ UNCHANGED shell

Frame == GameLoop(FRAME_TIME)

Next ==
    \/ Frame
    \/ Jump
    \/ ActivateDoubleJump

Spec == Init /\ [][Next]_vars

----------------------------------------------------------------------------
(* Score and difficulty on their own: the score and difficulty steps of
   Game.update with the body's height an input, powerup pickups, and the wall
   clock advancing between calls *)

MaxClimb == 62
MaxWaits == 2
MaxPickups == 1
WaitTime == 20000

\* the heights a call is made with: one score threshold above the highest
\* height so far, at it, and below it
HeightSet ==
    {sm.highest_height - Px(PLAYER_HEIGHT) - Px(SCORE_THRESHOLD),
     sm.highest_height - Px(PLAYER_HEIGHT),
     sm.highest_height - Px(PLAYER_HEIGHT) + Px(1)}

\* multiplier powerups at the ends of MULTIPLIER_RANGE and
\* MULTIPLIER_DURATION_RANGE
MultiplierPowerups ==
    {[x |-> 0, y |-> 0, type |-> TYPE_MULTIPLIER, multiplier |-> m,
      duration |-> d * MilliPerUnit] :
        m \in {MULTIPLIER_MIN, MULTIPLIER_MAX},
        d \in {MULTIPLIER_DURATION_MIN, MULTIPLIER_DURATION_MAX}}

InitScore ==
    /\ \E seed \in 1..MaxSeed :
         /\ player = NewGame(seed).player
         /\ camera = NewGame(seed).camera
         /\ sm = NewGame(seed).sm
         /\ dm = NewGame(seed).dm
         /\ pm = NewGame(seed).pm
         /\ pum = NewGame(seed).pum
         /\ rng = seed
    /\ is_game_over = FALSE
    /\ ev = NoEvent
    /\ now = StartTime
    /\ last_update = StartTime
    /\ frame_accumulator = 0
    /\ pickups = 0
    /\ twin = 0
    /\ Playing

\* the score and difficulty steps of one tick, the body at height h
Climb(h) ==
    /\ h >= Px(WINDOW_HEIGHT - PLAYER_HEIGHT) - MaxClimb * Px(SCORE_THRESHOLD)
    /\ \E g \in {ScoreAndDifficulty([Sim EXCEPT !.player.y = h], now)} :
         Install(g)
    /\ UNCHANGED <<now, last_update, frame_accumulator, twin>>
    /\ UNCHANGED shell

\* the body touches a multiplier powerup: Powerup.apply_effect
Pickup(pw) ==
    /\ pickups < MaxPickups
    /\ \E e \in {ApplyEffect(pw, player, sm, now)} :
         /\ player' = e.player
         /\ sm' = e.sm
    /\ pickups' = pickups + 1
    /\ ev' = [NoEvent EXCEPT !.op = "pickup", !.collected = 1]
    /\ UNCHANGED <<camera, dm, pm, pum, rng, now, frame_accumulator,
                   last_update, is_game_over, twin>>
    /\ UNCHANGED shell

\* the wall clock advances between two calls
Wait ==
    /\ now + WaitTime <= StartTime + MaxWaits * WaitTime
    /\ now' = now + WaitTime
    /\ ev' = [NoEvent EXCEPT !.op = "wait"]
    /\ UNCHANGED <<player, camera, sm, dm, pm, pum, rng, frame_accumulator,
                   last_update, is_game_over, pickups, twin>>
    /\ UNCHANGED shell

ClimbAny == \E h \in HeightSet : Climb(h)

PickupAny == \E pw \in MultiplierPowerups : Pickup(pw)

NextScore ==
    \/ ClimbAny
    \/ PickupAny
    \/ Wait

SpecScore == InitScore /\ [][NextScore]_vars

\* C1: over every sequence of ticks, powerup pickups, boost grants and
\* expiries, ScoreManager.score never decreases from one step to the next
C1_ScoreMonotonic == [][sm'.score >= sm.score]_vars

\* a tick added a fractional point under a collected multiplier, after boosts
\* had been granted
C1_ScoredUnderMultiplier ==
    /\ ev.op = "score"
    /\ ev.passed
    /\ pickups > 0
    /\ sm.score % One # 0
    /\ sm.score > BOOST_THRESHOLD * One

\* C2: difficulty_factor never decreases, and difficulty_factor and the
\* generation parameters (of the difficulty manager and of the platform
\* manager) change in a tick only if difficulty_level increased in that tick
C2_DifficultyMonotonic ==
    [][/\ dm'.difficulty_factor >= dm.difficulty_factor
       /\ (\/ dm'.difficulty_factor # dm.difficulty_factor
           \/ dm'.platform_params # dm.platform_params
           \/ pm'.platform_params # pm.platform_params
           \/ pm'.min_platform_spacing # pm.min_platform_spacing
           \/ pm'.max_platform_spacing # pm.max_platform_spacing)
            => dm'.difficulty_level > dm.difficulty_level]_vars

\* a tick raised the level for the third time and pushed new parameters
C2_LevelRaised ==
    /\ ev.op = "score"
    /\ ev.level_up
    /\ ev.updated
    /\ dm.difficulty_level = 3
    /\ pm.platform_params = dm.platform_params

\* C7: the active boosts hold at most one boost per kind (speed, jump,
\* gravity), hence at most 3; a boost reward that comes when all three kinds
\* are active leaves the active set as it was and fires no on_boost
C7_BoostExclusive ==
    [][/\ Cardinality(sm'.active_boosts) <= 3
       /\ \A a, b \in sm'.active_boosts : a.type = b.type => a = b
       /\ \A a \in sm'.active_boosts : a.type \in {"speed", "jump", "gravity"}
       /\ {a.type : a \in sm.active_boosts} = {"speed", "jump", "gravity"}
            => /\ TriggerBoostReward(sm, player, now, rng).sm = sm
               /\ TriggerBoostReward(sm, player, now, rng).granted = {}
               /\ TriggerBoostReward(sm, player, now, rng).player = player
               /\ (ev'.op = "score" /\ ev'.rewarded)
                    => /\ ev'.granted = {}
                       /\ sm'.active_boosts \cup ev'.expired = sm.active_boosts
      ]_vars

\* a reward came due while all three kinds were active
C7_RewardWhileAllActive ==
    /\ ev.op = "score"
    /\ ev.rewarded
    /\ ev.available = << >>
    /\ ev.granted = {}
    /\ Cardinality(sm.active_boosts) = 3

\* C10: with the score rising in steps smaller than DIFFICULTY_THRESHOLD,
\* after every call difficulty_factor = min(0.2 * difficulty_level, 1.0);
\* a score driven from 0 to 25 in single points ends with factor 0.4
C10_FactorFollowsLevel ==
    /\ dm.difficulty_factor
         = Min(FACTOR_INCREMENT * dm.difficulty_level, MAX_DIFFICULTY_FACTOR)
    /\ (pickups = 0 /\ sm.score = 25 * One) => dm.difficulty_factor = 4

\* the score reached 25 in single points, two level-ups behind it
C10_ScoreTwentyFive ==
    /\ pickups = 0
    /\ sm.score = 25 * One
    /\ dm.difficulty_level = 2
    /\ ev.op = "score"

\* C11: once a multiplier powerup (m, d) has been collected at t0, a point
\* scored at a tick before t0 + d is scaled by m; at every tick at or after
\* t0 + d the score multiplier is 1.0 after the tick and a point scored in it
\* is scaled by 1.0
C11_MultiplierWindow ==
    [][(ev'.op = "score" /\ pickups > 0) =>
          IF sm.multiplier_end_time # None /\ now' < sm.multiplier_end_time
          THEN sm'.score # sm.score => sm'.score - sm.score = sm.multiplier
          ELSE /\ sm'.multiplier = One
               /\ sm'.score # sm.score => sm'.score - sm.score = One]_vars

\* C12: after every tick no boost whose elapsed time has reached its duration
\* is left in active_boosts, and the body's boost factor is 1.0 for every
\* kind that has no active boost, whatever the height of the tick
C12_NoExpiredBoostAfterTick ==
    ev.op = "score" =>
        /\ \A b \in sm.active_boosts : ~BoostExpired(b, now)
        /\ \A k \in {"speed", "jump", "gravity"} :
             k \notin ActiveKinds(sm.active_boosts)
                => player.boost_multipliers[k] = One

----------------------------------------------------------------------------
(* Two runs side by side: the same initial state, the same heights, pickups
   and elapsed times fed to both; each run has its own random generator and
   its own wall clock, which also advances while nothing is fed (a pause) *)

MaxTwinClimb == 12

\* the simulation state of a run: body, platforms, powerups, score,
\* multiplier, active boosts, difficulty
SimulationState(g) ==
    [player |-> g.player, platforms |-> g.pm.platforms,
     powerups |-> g.pum.powerups, score |-> g.sm.score,
     multiplier |-> g.sm.multiplier, active_boosts |-> g.sm.active_boosts,
     difficulty |-> g.dm]

InitTwin ==
    /\ \E seed \in 1..MaxSeed :
         /\ player = NewGame(seed).player
         /\ camera = NewGame(seed).camera
         /\ sm = NewGame(seed).sm
         /\ dm = NewGame(seed).dm
         /\ pm = NewGame(seed).pm
         /\ pum = NewGame(seed).pum
         /\ rng = seed
    /\ is_game_over = FALSE
    /\ ev = NoEvent
    /\ now = StartTime
    /\ last_update = StartTime
    /\ frame_accumulator = 0
    /\ pickups = 0
    /\ \E seed \in 1..MaxSeed : twin = [sim |-> NewGame(seed), now |-> StartTime]
    /\ Playing

\* both runs make the score and difficulty steps of a tick at height h
TwinClimb(h) ==
    /\ h >= Px(WINDOW_HEIGHT - PLAYER_HEIGHT) - MaxTwinClimb * Px(SCORE_THRESHOLD)
    /\ \E g \in {ScoreAndDifficulty([Sim EXCEPT !.player.y = h], now)} :
         Install(g)
    /\ twin' = [twin EXCEPT
                  !.sim = ScoreAndDifficulty([@ EXCEPT !.player.y = h], twin.now)]
    /\ UNCHANGED <<now, last_update, frame_accumulator>>
    /\ UNCHANGED shell

\* both runs collect the same multiplier powerup
TwinPickup(pw) ==
    /\ pickups < MaxPickups
    /\ \E e \in {ApplyEffect(pw, player, sm, now)} :
         /\ player' = e.player
         /\ sm' = e.sm
    /\ pickups' = pickups + 1
    /\ ev' = [NoEvent EXCEPT !.op = "pickup", !.collected = 1]
    /\ \E e \in {ApplyEffect(pw, twin.sim.player, twin.sim.sm, twin.now)} :
         twin' = [twin EXCEPT !.sim.player = e.player, !.sim.sm = e.sm,
                              !.sim.pickups = @ + 1]
    /\ UNCHANGED <<camera, dm, pm, pum, rng, now, frame_accumulator,
                   last_update, is_game_over>>
    /\ UNCHANGED shell

\* the same time passes in both runs
TwinWait ==
    /\ now + WaitTime <= StartTime + MaxWaits * WaitTime
    /\ now' = now + WaitTime
    /\ ev' = [NoEvent EXCEPT !.op = "wait"]
    /\ twin' = [twin EXCEPT !.now = @ + WaitTime]
    /\ UNCHANGED <<player, camera, sm, dm, pm, pum, rng, frame_accumulator,
                   last_update, is_game_over, pickups>>
    /\ UNCHANGED shell

\* the second run is paused: its wall clock advances, no elapsed time is fed
TwinPause ==
    /\ twin.now = now
    /\ twin' = [twin EXCEPT !.now = @ + WaitTime]
    /\ UNCHANGED <<player, camera, sm, dm, pm, pum, rng, now, frame_accumulator,
                   last_update, is_game_over, ev, pickups>>
    /\ UNCHANGED shell

TwinClimbAny == \E h \in HeightSet : TwinClimb(h)

TwinPickupAny == \E pw \in MultiplierPowerups : TwinPickup(pw)

NextTwin ==
    \/ TwinClimbAny
    \/ TwinPickupAny
    \/ TwinWait
    \/ TwinPause

SpecTwin == InitTwin /\ [][NextTwin]_vars

\* C8: two runs started from the same initial state and fed the same sequence
\* of elapsed-time values end in identical simulation state (body, platforms,
\* powerups, score, multiplier, active boosts, difficulty)
C8_Deterministic == SimulationState(Sim) = SimulationState(twin.sim)

----------------------------------------------------------------------------
(* The world on its own: the score, difficulty and world steps of Game.update
   with the body's height an input: the body is carried up and down the tower *)

MaxWorldTicks == 13

\* the vertical moves of the body between two ticks
MoveSet == {-Px(2 * SCORE_THRESHOLD), Px(SCORE_THRESHOLD)}

InitWorld ==
    /\ \E seed \in 1..MaxSeed :
         /\ player = NewGame(seed).player
         /\ camera = NewGame(seed).camera
         /\ sm = NewGame(seed).sm
         /\ dm = NewGame(seed).dm
         /\ pm = NewGame(seed).pm
         /\ pum = NewGame(seed).pum
         /\ rng = seed
    /\ is_game_over = FALSE
    /\ ev = NoEvent
    /\ now = StartTime
    /\ last_update = StartTime
    /\ frame_accumulator = 0
    /\ pickups = 0
    /\ twin = 0
    /\ Playing

\* one tick with the body moved by dy: score, difficulty, platforms, powerups
Carry(dy) ==
    /\ now + FRAME_TIME <= StartTime + MaxWorldTicks * FRAME_TIME
    /\ player.y + dy <= Px(WINDOW_HEIGHT - PLAYER_HEIGHT)
    /\ now' = now + FRAME_TIME
    /\ last_update' = now'
    /\ \E g \in {WorldSteps(
                    ScoreAndDifficulty([Sim EXCEPT !.player.y = @ + dy], now'),
                    FRAME_TIME, now')} :
         Install(g)
    /\ UNCHANGED <<frame_accumulator, twin>>
    /\ UNCHANGED shell

Ascend == \E dy \in {d \in MoveSet : d < 0} : Carry(dy)

Descend == \E dy \in {d \in MoveSet : d > 0} : Carry(dy)

NextWorld ==
    \/ Ascend
    \/ Descend

SpecWorld == InitWorld /\ [][NextWorld]_vars

\* C4: immediately after cleanup has run in a tick, no platform and no
\* powerup with y > playerY + 300 (the retention margin) is left in its
\* collection
C4_RetentionBound ==
    ev.op = "world" =>
        /\ \A i \in 1..Len(pm.platforms) :
              ~(pm.platforms[i].y > ev.cleanup_height + Px(RETENTION_MARGIN))
        /\ \A i \in 1..Len(pum.powerups) :
              ~(pum.powerups[i].y > ev.cleanup_height + Px(RETENTION_MARGIN))

\* a tick whose cleanup dropped platforms and a powerup
C4_CleanupDropped ==
    /\ ev.op = "world"
    /\ ev.dropped_platforms > 0
    /\ ev.dropped_powerups > 0
    /\ pm.platforms # << >>

----------------------------------------------------------------------------
(* Collision resolution on its own: one platform and one body in every
   relative position, and the collision loop of Game.update applied to them *)

\* body bottom minus platform top, in milli-pixels
DeltaSet ==
    {-Px(1), -1, 0, 1, Px(5), Px(LANDING_TOLERANCE) - 1, Px(LANDING_TOLERANCE),
     Px(LANDING_TOLERANCE) + 1, Px(LANDING_TOLERANCE + 1)}

\* the platform of the collision scenarios spans x 180..250 at y 600
ScenarioPlatform ==
    [x |-> Px(180), y |-> Px(600), type |-> TYPE_NORMAL, width |-> Px(70),
     velocity |-> 0, is_active |-> TRUE, break_timer |-> None]

\* the platform in each of its kinds and conditions
PlatformSet ==
    {ScenarioPlatform,
     [ScenarioPlatform EXCEPT !.type = TYPE_MOVING, !.velocity = MOVE_SPEED \div 2],
     [ScenarioPlatform EXCEPT !.type = TYPE_WRAPPING, !.velocity = -MOVE_SPEED],
     [ScenarioPlatform EXCEPT !.type = TYPE_BREAKING],
     [ScenarioPlatform EXCEPT !.type = TYPE_BREAKING, !.break_timer = BREAK_TIMER \div 2],
     [ScenarioPlatform EXCEPT !.type = TYPE_BREAKING, !.break_timer = 0,
                              !.is_active = FALSE]}

\* body x: no overlap, overlap just below, at and above a third of the body
\* width on either edge, and full overlap
BodyXSet ==
    {Px(100), Px(180) - Px(PLAYER_WIDTH) + 13333, Px(180) - Px(PLAYER_WIDTH) + 13334,
     Px(200), Px(250) - 13334, Px(250) - 13333, Px(260)}

\* body vertical velocity: ascending, at rest, falling
VelocitySet == {JUMP_FORCE, -GRAVITY, 0, GRAVITY, 400}

InitCollide ==
    /\ \E pl \in PlatformSet, delta \in DeltaSet, x \in BodyXSet,
          vy \in VelocitySet, jumping \in BOOLEAN, grounded \in BOOLEAN :
         /\ pm = [PlatformManagerNew(DifficultyManagerNew) EXCEPT
                    !.platforms = <<pl>>, !.highest_platform = pl.y]
         /\ player = [PlayerNew EXCEPT !.x = x,
                                       !.y = pl.y + delta - Px(PLAYER_HEIGHT),
                                       !.y_velocity = vy,
                                       !.is_jumping = jumping,
                                       !.is_on_ground = grounded]
    /\ camera = CameraNew
    /\ sm = ScoreManagerNew
    /\ dm = DifficultyManagerNew
    /\ pum = PowerupManagerNew
    /\ rng = 1
    /\ is_game_over = FALSE
    /\ ev = NoEvent
    /\ now = StartTime
    /\ last_update = StartTime
    /\ frame_accumulator = 0
    /\ pickups = 0
    /\ twin = 0
    /\ Playing

\* the collision loop of Game.update on the scenario
Collide ==
    /\ ev.op = "new"
    /\ \E co \in {CollisionLoop(pm.platforms, 1, player, FRAME_TIME, << >>)} :
         /\ player' = co.player
         /\ pm' = [pm EXCEPT !.platforms = co.platforms]
         /\ ev' = [NoEvent EXCEPT !.op = "collide", !.landed = co.landed,
                                  !.pre_y = player.y,
                                  !.pre_vy = player.y_velocity]
    /\ UNCHANGED <<camera, sm, dm, pum, rng, now, frame_accumulator,
                   last_update, is_game_over, pickups, twin>>
    /\ UNCHANGED shell

NextCollide == Collide

SpecCollide == InitCollide /\ [][NextCollide]_vars

\* C5: check_collision never reports a landing while the body is ascending or
\* at rest (y_velocity <= 0), whatever the platform kind and the relative
\* position, and collision resolution then leaves the body as it was
C5_NoLandingUnlessFalling ==
    [][(ev'.op = "collide" /\ player.y_velocity <= 0) =>
          /\ ev'.landed = << >>
          /\ ~CheckCollision(pm.platforms[1], player).hit
          /\ player' = player]_vars

\* a body at rest inside the band over an active platform went through
\* collision resolution
C5_RestingInBand ==
    /\ ev.op = "collide"
    /\ ev.pre_vy = 0
    /\ pm.platforms[1].is_active
    /\ ev.pre_y + player.height - pm.platforms[1].y \in 0..Px(LANDING_TOLERANCE)
    /\ 3 * OverlapAmount(pm.platforms[1], player) >= player.width

\* C6: for an active platform, a falling body and horizontal overlap of at
\* least a third of the body width, check_collision reports a landing if and
\* only if body bottom - platform top lies in the closed band [0, 10]
C6_ToleranceBand ==
    [][(/\ ev'.op = "collide"
        /\ pm.platforms[1].is_active
        /\ player.y_velocity > 0
        /\ 3 * (Min(pm.platforms[1].x + pm.platforms[1].width,
                    player.x + player.width)
                  - Max(pm.platforms[1].x, player.x)) >= player.width)
       => (ev'.landed = <<1>>
             <=> (/\ player.y + player.height - pm.platforms[1].y >= 0
                  /\ player.y + player.height - pm.platforms[1].y
                        <= Px(LANDING_TOLERANCE)))]_vars

\* a landing with the body bottom exactly 10 below the platform top
C6_LandedAtBandEnd ==
    /\ ev.op = "collide"
    /\ ev.landed = <<1>>
    /\ ev.pre_y + player.height - pm.platforms[1].y = Px(LANDING_TOLERANCE)

----------------------------------------------------------------------------
(* Properties of the complete tick, checked under Spec *)

\* C3 as stated: after any complete physics tick, collision snap included, the
\* minimum y among the platforms present is <= player.y - WINDOW_HEIGHT
C3_CoverageAfterTick ==
    pm.platforms # << >> =>
        MinY(pm.platforms) <= player.y - Px(WINDOW_HEIGHT)

\* C3 amended: after any complete physics tick the minimum platform y is
\* <= (the body's y when the generator ran in that tick) - WINDOW_HEIGHT, and
\* so <= player.y - WINDOW_HEIGHT + LANDING_TOLERANCE, the most the collision
\* snap lifts the body after generation
C3_CoverageAtGeneration ==
    pm.platforms # << >> =>
        /\ ev.op = "update" =>
              MinY(pm.platforms) <= ev.cleanup_height - Px(WINDOW_HEIGHT)
        /\ MinY(pm.platforms)
              <= player.y - Px(WINDOW_HEIGHT) + Px(LANDING_TOLERANCE)

\* a tick whose landing snap lifted the body past the screen the generator
\* had covered
C3_SnapPastCoverage ==
    /\ ev.op = "update"
    /\ ev.landed # << >>
    /\ player.y < ev.cleanup_height
    /\ MinY(pm.platforms) > player.y - Px(WINDOW_HEIGHT)

\* C9: in every tick in which the body lands on a platform, at the end of the
\* tick player.y = platform.y - player.height, y_velocity = 0, is_jumping is
\* False and is_on_ground is True
C9_LandingSnap ==
    (ev.op = "update" /\ ev.landed # << >>) =>
        /\ player.y = pm.platforms[ev.landed[Len(ev.landed)]].y - player.height
        /\ player.y_velocity = 0
        /\ ~player.is_jumping
        /\ player.is_on_ground

\* a tick in which the falling body landed and was moved by the snap
C9_Landed ==
    /\ ev.op = "update"
    /\ Len(ev.landed) = 1
    /\ ev.pre_vy > 0
    /\ ev.pre_y # player.y

----------------------------------------------------------------------------
(* The driver and the handlers around it: game_loop called by the timer with
   varying intervals, Escape, the boss key, the buttons of the pause menu and
   of the game over screen, and a rocket powerup touched at the start *)

MaxDriverTime == 2320
MaxDriverSeed == 4
MaxKeyTime == 60
ShortTime == FRAME_TIME \div 2
LagTime == 2 * FRAME_TIME + 8
KeyDelay == 20

\* the intervals between two calls of game_loop
ElapsedSet == {ShortTime, LagTime}

\* the time since the last call of game_loop at which a key or button is handled
KeyDelaySet == {KeyDelay}

\* a key or button is used early in the run, or on the game over screen
KeyTime(t) == t <= StartTime + MaxKeyTime

RocketPowerup ==
    [x |-> 0, y |-> 0, type |-> TYPE_ROCKET, multiplier |-> None,
     duration |-> None]

InitDriver ==
    /\ \E seed \in 1..MaxDriverSeed :
         /\ player = NewGame(seed).player
         /\ camera = NewGame(seed).camera
         /\ sm = NewGame(seed).sm
         /\ dm = NewGame(seed).dm
         /\ pm = NewGame(seed).pm
         /\ pum = NewGame(seed).pum
         /\ rng = seed
    /\ is_game_over = FALSE
    /\ ev = [NoEvent EXCEPT !.op = "start"]
    /\ now = StartTime
    /\ last_update = StartTime
    /\ frame_accumulator = 0
    /\ pickups = 0
    /\ twin = 0
    /\ Playing

\* the timer calls game_loop
DriverLoop ==
    /\ game_loop_running
    /\ \E elapsed \in ElapsedSet :
         /\ now + elapsed <= StartTime + MaxDriverTime
         /\ GameLoopAt(now + elapsed)

\* a pause that leaves last_update alone when it resumes
PauseKeepsTime(t) ==
    /\ current_state = GAME_STATE_PLAYING
    /\ ~is_game_over
    /\ now' = t
    /\ is_paused' = ~is_paused
    /\ ev' = [NoEvent EXCEPT !.op = "pause"]
    /\ UNCHANGED <<player, camera, sm, dm, pm, pum, rng, frame_accumulator,
                   last_update, is_game_over, pickups, twin, current_state,
                   game_loop_running, boss_key_active, previous_state,
                   save_data, leaderboard>>

\* Game.pause with time.time() = t (Escape while playing, or the resume button)
Pause(t) ==
    /\ current_state = GAME_STATE_PLAYING
    /\ ~is_game_over
    /\ now' = t
    /\ is_paused' = ~is_paused
    /\ last_update' = IF is_paused THEN t ELSE last_update
    /\ ev' = [NoEvent EXCEPT !.op = "pause"]
    /\ UNCHANGED <<player, camera, sm, dm, pm, pum, rng, frame_accumulator,
                   is_game_over, pickups, twin, current_state,
                   game_loop_running, boss_key_active, previous_state,
                   save_data, leaderboard>>

\* Game.activate_boss_key (Alt_L)
ActivateBossKey(t) ==
    /\ now' = t
    /\ IF ~boss_key_active
       THEN /\ previous_state' = current_state
            /\ is_paused' = IF current_state = GAME_STATE_PLAYING /\ ~is_paused
                            THEN TRUE ELSE is_paused
            /\ boss_key_active' = TRUE
            /\ UNCHANGED current_state
       ELSE /\ boss_key_active' = FALSE
            /\ IF previous_state = GAME_STATE_PLAYING
               THEN /\ current_state' = GAME_STATE_PLAYING
                    /\ is_paused' = TRUE
               ELSE UNCHANGED <<current_state, is_paused>>
            /\ UNCHANGED previous_state
    /\ ev' = [NoEvent EXCEPT !.op = "boss"]
    /\ UNCHANGED <<player, camera, sm, dm, pm, pum, rng, frame_accumulator,
                   last_update, is_game_over, pickups, twin,
                   game_loop_running, save_data, leaderboard>>

\* Game.start_new_game with time.time() = t; the call of game_loop that ends
\* it finds no time elapsed
StartNewGame(t) ==
    /\ now' = t
    /\ frame_accumulator' = 0
    /\ current_state' = GAME_STATE_PLAYING
    /\ Install([NewGame(rng) EXCEPT !.ev = [NoEvent EXCEPT !.op = "start"]])
    /\ is_paused' = FALSE
    /\ game_loop_running' = TRUE
    /\ last_update' = t
    /\ UNCHANGED <<twin, boss_key_active, previous_state, save_data, leaderboard>>

\* Game.stop_game: cleanup_managers leaves the managers None
StopGame(t) ==
    /\ now' = t
    /\ frame_accumulator' = 0
    /\ game_loop_running' = FALSE
    /\ current_state' = GAME_STATE_MENU
    /\ last_update' = None
    /\ sm' = None
    /\ dm' = None
    /\ pm' = None
    /\ pum' = None
    /\ ev' = [NoEvent EXCEPT !.op = "stop"]
    /\ UNCHANGED <<player, camera, rng, is_game_over, pickups, twin, is_paused,
                   boss_key_active, previous_state, save_data, leaderboard>>

\* the body touches a rocket powerup while it stands at the start
Rocket ==
    /\ current_state = GAME_STATE_PLAYING
    /\ ~is_paused
    /\ ~is_game_over
    /\ ev.op = "start"
    /\ pickups = 0
    /\ player' = ApplyEffect(RocketPowerup, player, sm, now).player
    /\ pickups' = pickups + 1
    /\ ev' = [NoEvent EXCEPT !.op = "rocket", !.collected = 1]
    /\ UNCHANGED <<camera, sm, dm, pm, pum, rng, now, frame_accumulator,
                   last_update, is_game_over, twin>>
    /\ UNCHANGED shell

\* Escape, which is bound to pause while the state is playing
PressEscape ==
    \E d \in KeyDelaySet : KeyTime(now + d) /\ Pause(now + d)

PressBossKey ==
    \E d \in KeyDelaySet : KeyTime(now + d) /\ ActivateBossKey(now + d)

\* "Start", "Restart" and "Play again": the menu, the pause menu and the game
\* over screen
ClickStart ==
    /\ ~boss_key_active
    /\ \/ current_state = GAME_STATE_MENU
       \/ is_paused
       \/ is_game_over
    /\ \E d \in KeyDelaySet :
         /\ KeyTime(now + d) \/ is_game_over
         /\ now + d <= StartTime + MaxDriverTime
         /\ StartNewGame(now + d)

\* "Main menu" of the pause menu and of the game over screen
ClickMainMenu ==
    /\ ~boss_key_active
    /\ current_state = GAME_STATE_PLAYING
    /\ is_paused \/ is_game_over
    /\ \E d \in KeyDelaySet :
         /\ KeyTime(now + d) \/ is_game_over
         /\ now + d <= StartTime + MaxDriverTime
         /\ StopGame(now + d)

NextDriver ==
    \/ DriverLoop
    \/ Rocket
    \/ PressEscape
    \/ PressBossKey
    \/ ClickStart
    \/ ClickMainMenu

SpecDriver == InitDriver /\ [][NextDriver]_vars

\* C14: once handle_player_death has set is_game_over, Game.update is not
\* called again until start_new_game: not by a later call of game_loop, and
\* not by the remaining steps of the call in which the body died
C14_NoTickAfterDeath ==
    /\ [](ev.op = "update" => ev.after_death = 0)
    /\ [][is_game_over => ev'.op # "update"]_vars

\* C16: a call of game_loop in the running state runs
\* floor((frame_accumulator + elapsed) / FRAME_TIME) ticks, each given
\* FRAME_TIME, and leaves the rest, which is at least 0 and less than
\* FRAME_TIME, in frame_accumulator; elapsed is the time since last_update.
\* No handler other than start_new_game and stop_game changes the remainder
\* between two calls.
C16_FixedStepAccumulator ==
    [][/\ (/\ game_loop_running
           /\ current_state = GAME_STATE_PLAYING
           /\ ~is_paused
           /\ ~is_game_over
           /\ ev'.op \in {"idle", "update"})
          => /\ frame_accumulator' >= 0
             /\ frame_accumulator' < FRAME_TIME
             /\ ev'.ticks * FRAME_TIME + frame_accumulator'
                  = frame_accumulator + (now' - last_update)
             /\ ev'.ticks > 0 => ev'.diff_time = FRAME_TIME
       /\ ev'.op \in {"pause", "boss", "rocket"}
          => frame_accumulator' = frame_accumulator]_vars

\* a call ran several ticks and left a remainder
C16_SeveralTicksAndRemainder ==
    /\ ev.op = "update"
    /\ ev.ticks >= 2
    /\ frame_accumulator > 0
    /\ ~is_game_over

\* C17: when the simulation is paused (pause, boss key) and when it is
\* restarted (start_new_game, stop_game), frame_accumulator is reset to 0 and
\* last_update is reset (to None, or to the time of the call)
C17_ResetOnPauseAndRestart ==
    [][(\/ (is_paused' /\ ~is_paused)
        \/ ev'.op \in {"start", "stop"})
          => /\ frame_accumulator' = 0
             /\ last_update' \in {None, 0, now'}]_vars

\* C17 as the code has it: start_new_game sets frame_accumulator to 0 and
\* last_update to the time of the call; stop_game sets them to 0 and None;
\* pause and the boss key leave frame_accumulator as it is, and pause sets
\* last_update to the time of the call when it resumes and leaves it when it
\* pauses; while paused or over every call of game_loop runs no tick, leaves
\* frame_accumulator and moves last_update to the time of the call
C17_ResetOnRestartAndResume ==
    [][/\ ev'.op = "start"
          => frame_accumulator' = 0 /\ last_update' = now'
       /\ ev'.op = "stop"
          => frame_accumulator' = 0 /\ last_update' = None
       /\ ev'.op = "pause"
          => /\ frame_accumulator' = frame_accumulator
             /\ last_update' = IF is_paused THEN now' ELSE last_update
       /\ ev'.op = "boss"
          => /\ frame_accumulator' = frame_accumulator
             /\ last_update' = last_update
       /\ (ev'.op \in {"idle", "update"} /\ (is_paused \/ is_game_over))
          => /\ ev'.ticks = 0
             /\ frame_accumulator' = frame_accumulator
             /\ last_update' = now']_vars

\* the game was resumed with a remainder in frame_accumulator, some time
\* after game_loop had last run
C17_ResumedWithRemainder ==
    /\ ev.op = "pause"
    /\ ~is_paused
    /\ frame_accumulator > 0
    /\ last_update = now

\* the body, score, difficulty, camera and powerups of a first game
FirstGame ==
    /\ player.x = Px(WINDOW_WIDTH \div 2)
    /\ player.y = Px(WINDOW_HEIGHT - PLAYER_HEIGHT)
    /\ player.x_velocity = 0
    /\ player.y_velocity = 0
    /\ ~player.is_jumping
    /\ player.is_on_ground
    /\ ~player.moving_left
    /\ ~player.moving_right
    /\ ~player.double_jump_enabled
    /\ ~player.is_on_second_jump
    /\ \A k \in {"speed", "jump", "gravity"} : player.boost_multipliers[k] = One
    /\ sm.score = 0
    /\ sm.multiplier = One
    /\ sm.active_boosts = {}
    /\ sm.highest_height = Px(WINDOW_HEIGHT)
    /\ dm.difficulty_level = 0
    /\ dm.difficulty_factor = 0
    /\ camera.y = 0
    /\ pum.powerups = << >>
    /\ ~is_paused
    /\ ~is_game_over

\* the y of the first platform of generate_initial_platforms
FirstPlatformY == Px(WINDOW_HEIGHT) - MAX_JUMP_HEIGHT + Px(20)

\* C18: after start_new_game the simulation is that of a first game, and the
\* platform collection is the regenerated initial field
C18_FirstGameWithField ==
    (ev.op = "start" /\ now > StartTime) =>
        /\ FirstGame
        /\ pm.platforms # << >>

\* C18 as the code has it: after start_new_game the simulation is that of a
\* first game and the platform collection is empty, no platform of the
\* previous game left; the first tick then generates the initial field, from
\* the first platform up to at least 0.2 screens above the top
C18_FirstGameEmptyField ==
    /\ []((ev.op = "start" /\ now > StartTime) =>
            (FirstGame /\ pm.platforms = << >>))
    /\ [][(ev.op = "start" /\ ev'.op = "update")
            => /\ pm.platforms = << >>
               /\ MaxY(pm'.platforms) = FirstPlatformY
               /\ MinY(pm'.platforms) <= -((Px(WINDOW_HEIGHT) * 2) \div One)]_vars

\* a new game was started from the game over screen
C18_PlayAgain ==
    /\ ev.op = "start"
    /\ now > StartTime + MaxKeyTime + KeyDelay
    /\ pm.platforms = << >>

----------------------------------------------------------------------------
(* The death check on its own: check_player_death, called at the end of
   Game.update, on a field whose lowest platform is of each kind and
   condition, the body at and around the two thresholds *)

\* the y of the lowest platform of the field
LowestSet == {Px(600), Px(640)}

\* the platforms above the lowest one
UpperCountSet == {1, 2, 3}

\* the distance between two platforms of the field
FieldSpacing == Px(80)

\* a field: normal platforms above, the platform pl lowest
Field(pl, n) ==
    [i \in 1..n |-> [ScenarioPlatform EXCEPT !.y = pl.y - (n + 1 - i) * FieldSpacing]]
        \o <<pl>>

\* the body's y, from the y of the lowest platform: above it, at and just
\* past the margin below the platform above it, at and just past the margin
\* below the lowest platform itself
DeathDeltaSet ==
    {-Px(PLAYER_HEIGHT), Px(DEATH_MARGIN) - FieldSpacing,
     Px(DEATH_MARGIN) - FieldSpacing + 1, Px(DEATH_MARGIN) - 1,
     Px(DEATH_MARGIN), Px(DEATH_MARGIN) + 1}

InitDeath ==
    /\ \E pl \in PlatformSet, y \in LowestSet, n \in UpperCountSet,
          delta \in DeathDeltaSet, grounded \in BOOLEAN :
         /\ pm = [PlatformManagerNew(DifficultyManagerNew) EXCEPT
                    !.platforms = Field([pl EXCEPT !.y = y], n),
                    !.highest_platform = y - n * FieldSpacing]
         /\ player = [PlayerNew EXCEPT !.y = y + delta,
                                       !.y_velocity = 400,
                                       !.is_jumping = ~grounded,
                                       !.is_on_ground = grounded]
    /\ camera = CameraNew
    /\ sm = ScoreManagerNew
    /\ dm = DifficultyManagerNew
    /\ pum = PowerupManagerNew
    /\ rng = 1
    /\ is_game_over = FALSE
    /\ ev = NoEvent
    /\ now = StartTime
    /\ last_update = StartTime
    /\ frame_accumulator = 0
    /\ pickups = 0
    /\ twin = 0
    /\ Playing

\* check_player_death at the end of Game.update; on_death is
\* Game.handle_player_death
DeathCheck ==
    /\ ev.op = "new"
    /\ \E c \in {CheckPlayerDeath(pm, player)} :
         /\ is_game_over' = (is_game_over \/ c.died)
         /\ ev' = [NoEvent EXCEPT !.op = "death_check", !.died = c.died,
                                  !.crashed = c.crashed]
    /\ UNCHANGED <<player, camera, sm, dm, pm, pum, rng, now,
                   frame_accumulator, last_update, pickups, twin>>
    /\ UNCHANGED shell

NextDeath == DeathCheck

SpecDeath == InitDeath /\ [][NextDeath]_vars

\* the largest y among the platforms that are active
LowestActiveY ==
    LET ys == {pm.platforms[i].y : i \in {j \in 1..Len(pm.platforms) :
                                            pm.platforms[j].is_active}}
    IN  CHOOSE y \in ys : \A z \in ys : z <= y

\* C15: the death check signals death exactly when the body is airborne and
\* its y is more than 50 below the lowest active platform; inactive
\* platforms play no part
C15_DeathBelowLowestActive ==
    ev.op = "death_check" =>
        (ev.died <=> (/\ ~player.is_on_ground
                      /\ player.y > LowestActiveY + Px(DEATH_MARGIN)))

----------------------------------------------------------------------------
(* save.py: a game is played, saved into a slot, played on, and the slot is
   loaded back; between save and load the file may be changed outside the
   program *)

MaxLoadClimb == 12
LoadStep == Px(SCORE_THRESHOLD)
OffsetTime == 3 * MilliPerUnit
NegativeTime == -5 * MilliPerUnit
UnknownKind == "ice"

\* Platform.COLORS has exactly these keys
PlatformKinds == {TYPE_NORMAL, TYPE_MOVING, TYPE_BREAKING, TYPE_WRAPPING}

\* Powerup.COLORS has exactly these keys
PowerupKinds == {TYPE_ROCKET, TYPE_MULTIPLIER}

\* save_game, "for platform in self.game.platform_manager.get_platforms()"
PlatformData(pl) ==
    [x |-> pl.x, y |-> pl.y, type |-> pl.type, width |-> pl.width,
     velocity |-> pl.velocity, is_active |-> pl.is_active]

\* save_game, "for boost_type, boost in ...active_boosts.items()"
BoostData(boost, current_time) ==
    [type |-> boost.type, multiplier |-> boost.multiplier,
     elapsed_time |-> current_time - boost.start_time,
     duration |-> boost.duration, is_active |-> boost.is_active]

\* the dictionary save_game pickles, with time.time() = current_time
SaveData(g, current_time) ==
    [exists |-> TRUE,
     readable |-> TRUE,
     player |-> g.player,
     score |-> g.sm.score,
     difficulty_level |-> g.dm.difficulty_level,
     difficulty_factor |-> g.dm.difficulty_factor,
     height |-> g.sm.highest_height,
     multiplier |-> g.sm.multiplier,
     multiplier_remaining_time |->
        IF Truthy(g.sm.multiplier_end_time)
        THEN g.sm.multiplier_end_time - current_time
        ELSE 0,
     camera_y |-> g.camera.y,
     platforms |-> [i \in 1..Len(g.pm.platforms) |->
                        PlatformData(g.pm.platforms[i])],
     active_boosts |-> {BoostData(b, current_time) : b \in g.sm.active_boosts},
     powerups |-> g.pum.powerups]

\* load_game, "Restore player state"
RestorePlayer(p, player_data) ==
    [p EXCEPT !.x = player_data.x,
              !.y = player_data.y,
              !.x_velocity = player_data.x_velocity,
              !.y_velocity = player_data.y_velocity,
              !.is_jumping = player_data.is_jumping,
              !.is_on_ground = player_data.is_on_ground,
              !.double_jump_enabled = player_data.double_jump_enabled,
              !.boost_multipliers = player_data.boost_multipliers,
              !.is_on_second_jump = player_data.is_on_second_jump,
              !.moving_left = player_data.moving_left,
              !.moving_right = player_data.moving_right]

\* load_game, "Clear and restore active boosts": Boost(...) and then
\* start_time = current_time - elapsed_time + 3
RestoreBoost(boost_data, current_time) ==
    [BoostNew(boost_data.type, boost_data.multiplier, boost_data.duration,
              current_time)
        EXCEPT !.is_active = boost_data.is_active,
               !.start_time = current_time - boost_data.elapsed_time
                                + OffsetTime]

\* load_game, "Restore score manager state" and the boosts
RestoreScore(s, save_data_, current_time) ==
    [s EXCEPT !.score = save_data_.score,
              !.highest_height = save_data_.height,
              !.multiplier = save_data_.multiplier,
              !.multiplier_end_time =
                  IF save_data_.multiplier_remaining_time # None
                  THEN current_time + save_data_.multiplier_remaining_time
                  ELSE None,
              !.active_boosts =
                  {RestoreBoost(b, current_time) :
                      b \in save_data_.active_boosts}]

\* load_game, "Restore difficulty state"; update_platform_params computes the
\* parameters and fires on_param_update
RestoreDifficulty(d, save_data_) ==
    [difficulty_level |-> save_data_.difficulty_level,
     difficulty_factor |-> save_data_.difficulty_factor,
     platform_params |-> PlatformParams(save_data_.difficulty_factor)]

\* load_game, "Clear and restore platforms" from entry i on: Platform(...)
\* raises KeyError at COLORS[platform_type] for a kind it does not know;
\* result: the list so far, the generator and whether an exception was raised
RECURSIVE RestorePlatforms(_, _, _, _)
RestorePlatforms(data, i, platforms, r) ==
    IF i > Len(data)
    THEN [platforms |-> platforms, rng |-> r, raised |-> FALSE]
    ELSE IF data[i].type \notin PlatformKinds
    THEN [platforms |-> platforms, rng |-> r, raised |-> TRUE]
    ELSE Bind(PlatformNew(data[i].x, data[i].y, data[i].type, data[i].width, r),
              LAMBDA n :
                RestorePlatforms(data, i + 1,
                    Append(platforms,
                           [n.platform EXCEPT !.velocity = data[i].velocity,
                                              !.is_active = data[i].is_active]),
                    n.rng))

\* load_game, "Clear and restore powerups" from entry i on
RECURSIVE RestorePowerups(_, _, _)
RestorePowerups(data, i, powerups) ==
    IF i > Len(data)
    THEN [powerups |-> powerups, raised |-> FALSE]
    ELSE IF data[i].type \notin PowerupKinds
    THEN [powerups |-> powerups, raised |-> TRUE]
    ELSE RestorePowerups(data, i + 1, Append(powerups, data[i]))

\* SaveManager.load_game with time.time() = current_time: the game is changed
\* in place statement by statement, and an exception leaves it as it is at
\* that statement; loaded is the value returned
LoadGame(g, file, current_time) ==
    IF ~file.exists \/ ~file.readable
    THEN [g EXCEPT !.ev = [NoEvent EXCEPT !.op = "load"]]
    ELSE LET d == RestoreDifficulty(g.dm, file)
             restored ==
                [g EXCEPT !.player = RestorePlayer(g.player, file.player),
                          !.sm = RestoreScore(g.sm, file, current_time),
                          !.dm = d,
                          !.pm = UpdateGenerationParams(g.pm, d.platform_params),
                          !.camera = [g.camera EXCEPT !.y = file.camera_y]]
         IN  Bind(RestorePlatforms(file.platforms, 1, << >>, g.rng),
                  LAMBDA f :
                    IF f.raised
                    THEN [restored EXCEPT !.pm.platforms = f.platforms,
                                          !.rng = f.rng,
                                          !.ev = [NoEvent EXCEPT !.op = "load"]]
                    ELSE Bind(RestorePowerups(file.powerups, 1, << >>),
                              LAMBDA u :
                                [restored EXCEPT
                                    !.pm.platforms = f.platforms,
                                    !.rng = f.rng,
                                    !.pum.powerups = u.powerups,
                                    !.ev = [NoEvent EXCEPT
                                              !.op = "load",
                                              !.loaded = ~u.raised]]))

InitLoad ==
    /\ \E seed \in 1..MaxSeed :
         /\ player = NewGame(seed).player
         /\ camera = NewGame(seed).camera
         /\ sm = NewGame(seed).sm
         /\ dm = NewGame(seed).dm
         /\ pm = NewGame(seed).pm
         /\ pum = NewGame(seed).pum
         /\ rng = seed
    /\ is_game_over = FALSE
    /\ ev = NoEvent
    /\ now = StartTime
    /\ last_update = StartTime
    /\ frame_accumulator = 0
    /\ pickups = 0
    /\ twin = 0
    /\ Playing

\* one tick with the body one score threshold higher
LoadClimb ==
    /\ ev.op # "load"
    /\ player.y - LoadStep
         >= Px(WINDOW_HEIGHT - PLAYER_HEIGHT) - MaxLoadClimb * LoadStep
    /\ now' = now + FRAME_TIME
    /\ last_update' = now'
    /\ \E g \in {WorldSteps(
                    ScoreAndDifficulty([Sim EXCEPT !.player.y = @ - LoadStep],
                                       now'),
                    FRAME_TIME, now')} :
         Install(g)
    /\ UNCHANGED <<frame_accumulator, twin>>
    /\ UNCHANGED shell

\* the body touches a multiplier powerup before the game is saved
LoadPickup ==
    /\ ev.op # "load"
    /\ ~save_data.exists
    /\ \E pw \in {w \in MultiplierPowerups : w.multiplier = MULTIPLIER_MIN} :
         Pickup(pw)

\* SaveManager.save_game into the slot
SaveGame ==
    /\ ev.op \notin {"load", "new"}
    /\ ~save_data.exists
    /\ save_data' = SaveData(Sim, now)
    /\ ev' = [NoEvent EXCEPT !.op = "save"]
    /\ UNCHANGED <<player, camera, sm, dm, pm, pum, rng, now,
                   frame_accumulator, last_update, is_game_over, pickups,
                   twin, is_paused, current_state, game_loop_running,
                   boss_key_active, previous_state, leaderboard>>

\* the file of the slot as something other than this program left it
Damaged(file, how) ==
    CASE how = "truncated" -> [file EXCEPT !.readable = FALSE]
      [] how = "kind" ->
            [file EXCEPT !.platforms[Len(file.platforms)].type = UnknownKind]
      [] how = "boost" ->
            [file EXCEPT !.active_boosts =
                {[b EXCEPT !.duration = NegativeTime] : b \in @}]
      [] how = "multiplier" ->
            [file EXCEPT !.multiplier_remaining_time = NegativeTime]

\* the file is changed between save and load
Damage ==
    /\ ev.op = "save"
    /\ \E how \in {"truncated", "kind", "boost", "multiplier"} :
         /\ how = "kind" => save_data.platforms # << >>
         /\ how = "boost" => save_data.active_boosts # {}
         /\ save_data' = Damaged(save_data, how)
    /\ ev' = [NoEvent EXCEPT !.op = "damage"]
    /\ UNCHANGED <<player, camera, sm, dm, pm, pum, rng, now,
                   frame_accumulator, last_update, is_game_over, pickups,
                   twin, is_paused, current_state, game_loop_running,
                   boss_key_active, previous_state, leaderboard>>

\* SaveManager.load_game of the slot
Load ==
    /\ ev.op \notin {"load", "new"}
    /\ \E g \in {LoadGame(Sim, save_data, now)} : Install(g)
    /\ UNCHANGED <<now, frame_accumulator, last_update, twin>>
    /\ UNCHANGED shell

NextLoad ==
    \/ LoadClimb
    \/ LoadPickup
    \/ SaveGame
    \/ Damage
    \/ Load

SpecLoad == InitLoad /\ [][NextLoad]_vars

\* what load_game is to replace, as the file has it
SameAsFile(p, s, d, c, m, u, file) ==
    /\ p = RestorePlayer(p, file.player)
    /\ s.score = file.score
    /\ s.highest_height = file.height
    /\ s.multiplier = file.multiplier
    /\ {[type |-> b.type, multiplier |-> b.multiplier,
         duration |-> b.duration, is_active |-> b.is_active] :
            b \in s.active_boosts}
         = {[type |-> b.type, multiplier |-> b.multiplier,
             duration |-> b.duration, is_active |-> b.is_active] :
                b \in file.active_boosts}
    /\ d.difficulty_level = file.difficulty_level
    /\ d.difficulty_factor = file.difficulty_factor
    /\ c.y = file.camera_y
    /\ [i \in 1..Len(m.platforms) |-> PlatformData(m.platforms[i])]
         = file.platforms
    /\ u.powerups = file.powerups

\* C19: load_game is atomic: when it returns False, the body, score,
\* multiplier, active boosts, difficulty, camera, platforms and powerups are
\* what they were before the call; when it returns True they are all those of
\* the file
C19_LoadAtomic ==
    [][ev'.op = "load" =>
         IF ev'.loaded
         THEN SameAsFile(player', sm', dm', camera', pm', pum', save_data)
         ELSE UNCHANGED <<player, sm, dm, camera, pm, pum>>]_vars

\* a file holds a platform of a kind Platform does not know, or a negative
\* boost duration, or a negative multiplier time
Invalid(file) ==
    \/ \E i \in 1..Len(file.platforms) : file.platforms[i].type \notin PlatformKinds
    \/ \E b \in file.active_boosts : b.duration < 0
    \/ file.multiplier_remaining_time < 0

\* the live game holds a platform of an unknown kind, a boost of negative
\* duration or a multiplier that ended before it was installed
InvalidLive(s, m, t) ==
    \/ \E i \in 1..Len(m.platforms) : m.platforms[i].type \notin PlatformKinds
    \/ \E b \in s.active_boosts : b.duration < 0
    \/ (s.multiplier_end_time # None /\ s.multiplier_end_time < t)

\* C20: load_game of a file with a platform of unknown kind or a negative
\* boost or multiplier duration returns False, and none of that data is in
\* the live game afterwards
C20_InvalidFileRejected ==
    [][(/\ ev'.op = "load"
        /\ save_data.exists
        /\ save_data.readable
        /\ Invalid(save_data))
          => /\ ~ev'.loaded
             /\ ~InvalidLive(sm', pm', now')]_vars

----------------------------------------------------------------------------
(* Generation under the world component *)

\* the gaps between consecutive platforms of a list in generation order
Gaps(platforms) ==
    {platforms[i].y - platforms[i + 1].y : i \in 1..(Len(platforms) - 1)}

\* C21: after every tick the platform manager's min_platform_spacing and
\* max_platform_spacing equal the spacing_range of the difficulty manager's
\* platform_params, and the gaps of the field generated by the first tick lie
\* in that range
C21_SpacingFollowsParams ==
    [][ev'.op = "world" =>
         /\ pm'.min_platform_spacing = dm'.platform_params.spacing_range[1]
         /\ pm'.max_platform_spacing = dm'.platform_params.spacing_range[2]
         /\ pm.platforms = << >> =>
              \A gap \in Gaps(pm'.platforms) :
                  /\ gap >= dm'.platform_params.spacing_range[1]
                  /\ gap <= dm'.platform_params.spacing_range[2]]_vars

----------------------------------------------------------------------------
(* The platform list at the death check, under the driver component *)

\* C22: in every tick the platform list is not empty when check_player_death
\* runs, after generation and cleanup, so max(platform.y) is defined
C22_PlatformsAtDeathCheck ==
    ev.op = "update" => (~ev.crashed /\ pm.platforms # << >>)

\* a tick whose cleanup dropped platforms and left some
C22_CleanupLeftPlatforms ==
    /\ ev.op = "update"
    /\ ev.dropped_platforms > 0
    /\ ~ev.crashed
    /\ pm.platforms # << >>

----------------------------------------------------------------------------
(* Powerup spawning under the world component *)

\* the multiple of POWERUP_THRESHOLD a height lies in, "//" of check_powerup
ThresholdOf(height) == height \div Px(POWERUP_THRESHOLD)

\* C23: a spawn trial is rolled only in a tick in which the body enters a
\* multiple of POWERUP_THRESHOLD it has not been in before (the first tick of
\* a game rolls for the multiple the body starts in), and a tick adds at most
\* one powerup, only with a trial, at the body's y - WINDOW_HEIGHT
C23_OneTrialPerThreshold ==
    [][ev'.op = "world" =>
         LET rolled == NewThreshold(pum'.last_check_height,
                                    pum.last_check_height)
             spawned == Len(pum'.powerups) + ev'.collected
                          + ev'.dropped_powerups - Len(pum.powerups)
         IN  /\ rolled =>
                  \/ pum.last_check_height = Px(POWERUP_THRESHOLD)
                  \/ ThresholdOf(pum'.last_check_height)
                       < ThresholdOf(sm.highest_height - Px(PLAYER_HEIGHT))
             /\ spawned \in {0, 1}
             /\ spawned = 1 => rolled
             /\ (spawned = 1 /\ ev'.collected + ev'.dropped_powerups = 0) =>
                  pum'.powerups[Len(pum'.powerups)].y
                    = pum'.last_check_height - Px(WINDOW_HEIGHT)]_vars

----------------------------------------------------------------------------
(* A body on a platform of each kind: the field of a first tick whose lowest
   platform is one the generator makes at higher levels, the body standing on
   it or beside it, and the driver ticking *)

MaxRideTicks == 12
RideWidth == Px(70)

\* the lowest platform and the body's x: a platform in mid screen, a moving
\* platform about to reverse at either edge, a wrapping platform about to
\* wrap at either edge, and a body beside the platform
RideSet ==
    {[type |-> TYPE_NORMAL, x |-> Px(150), velocity |-> 0, body_x |-> Px(165)],
     [type |-> TYPE_MOVING, x |-> Px(150), velocity |-> MOVE_SPEED \div 2,
      body_x |-> Px(165)],
     [type |-> TYPE_MOVING, x |-> Px(328), velocity |-> MOVE_SPEED \div 2,
      body_x |-> Px(340)],
     [type |-> TYPE_MOVING, x |-> Px(2), velocity |-> -(MOVE_SPEED \div 2),
      body_x |-> Px(10)],
     [type |-> TYPE_WRAPPING, x |-> Px(150), velocity |-> -MOVE_SPEED,
      body_x |-> Px(165)],
     [type |-> TYPE_WRAPPING, x |-> -Px(68), velocity |-> -MOVE_SPEED,
      body_x |-> -Px(30)],
     [type |-> TYPE_WRAPPING, x |-> Px(398), velocity |-> MOVE_SPEED,
      body_x |-> Px(380)],
     [type |-> TYPE_BREAKING, x |-> Px(150), velocity |-> 0, body_x |-> Px(165)],
     [type |-> TYPE_BREAKING, x |-> Px(150), velocity |-> 0, body_x |-> Px(300)]}

\* the field of generate_initial_platforms with its first platform as in ride
RideField(ride, seed) ==
    Bind(GenerateInitialPlatforms(PlatformManagerNew(DifficultyManagerNew),
                                  DifficultyManagerNew, seed),
         LAMBDA f :
            [pm |-> [f.pm EXCEPT !.platforms[1].type = ride.type,
                                 !.platforms[1].x = ride.x,
                                 !.platforms[1].width = RideWidth,
                                 !.platforms[1].velocity = ride.velocity],
             rng |-> f.rng])

InitRide ==
    /\ \E seed \in 1..MaxSeed, ride \in RideSet :
         \E f \in {RideField(ride, seed)} :
            /\ pm = f.pm
            /\ rng = f.rng
            /\ player = [PlayerNew EXCEPT
                           !.x = ride.body_x,
                           !.y = f.pm.platforms[1].y - Px(PLAYER_HEIGHT)]
    /\ camera = CameraNew
    /\ sm = ScoreManagerNew
    /\ dm = DifficultyManagerNew
    /\ pum = PowerupManagerNew
    /\ is_game_over = FALSE
    /\ ev = NoEvent
    /\ now = StartTime
    /\ last_update = StartTime
    /\ frame_accumulator = 0
    /\ pickups = 0
    /\ twin = 0
    /\ Playing

\* game_loop one fixed step after the last call
RideTick ==
    /\ now + FRAME_TIME <= StartTime + MaxRideTicks * FRAME_TIME
    /\ GameLoopAt(now + FRAME_TIME)

NextRide ==
    \/ RideTick
    \/ Jump

SpecRide == InitRide /\ [][NextRide]_vars

\* C24: in a tick in which the body lands on a moving or wrapping platform
\* and the player gives no input, the body is shifted horizontally by the
\* distance the platform moved in that tick, reversal at an edge and wrap
\* around included
C24_BodyRidesPlatform ==
    [][(/\ ev'.op = "update"
        /\ ev'.ticks = 1
        /\ ev'.dropped_platforms = 0
        /\ ev'.landed # << >>
        /\ player.x_velocity = 0
        /\ pm'.platforms[ev'.landed[1]].type \in {TYPE_MOVING, TYPE_WRAPPING})
          => player'.x - player.x
               = pm'.platforms[ev'.landed[1]].x - pm.platforms[ev'.landed[1]].x]_vars

\* the indices of a sequence as a set
Indices(seq) == {seq[k] : k \in 1..Len(seq)}

\* C25: an inactive platform never reports a landing and never becomes active
\* again in a tick; the timer of a breaking platform is None until a landing
\* on it, is started (at BREAK_TIMER) only by a landing, and a landing on a
\* platform whose timer runs does not set it back
C25_InactiveAndTimerStart ==
    [][/\ pm' # pm => ev'.op = "update"
       /\ (ev'.op = "update" /\ ev'.ticks = 1 /\ ev'.dropped_platforms = 0) =>
            \A i \in 1..Len(pm.platforms) :
               /\ ~pm.platforms[i].is_active =>
                     /\ i \notin Indices(ev'.landed)
                     /\ ~pm'.platforms[i].is_active
               /\ (/\ pm.platforms[i].break_timer = None
                   /\ pm'.platforms[i].break_timer # None) =>
                     /\ pm.platforms[i].type = TYPE_BREAKING
                     /\ i \in Indices(ev'.landed)
                     /\ pm'.platforms[i].break_timer = BREAK_TIMER
               /\ (pm.platforms[i].break_timer # None
                     /\ pm.platforms[i].is_active) =>
                     pm'.platforms[i].break_timer < pm.platforms[i].break_timer]_vars

\* the body is in the landing band of a broken platform, falling, and no
\* landing was reported
C25_FallsThroughBroken ==
    /\ ev.op = "update"
    /\ pm.platforms[1].type = TYPE_BREAKING
    /\ ~pm.platforms[1].is_active
    /\ player.y_velocity > 0
    /\ InBand(player.y + player.height, pm.platforms[1].y)
    /\ EnoughOverlap(pm.platforms[1], player)
    /\ ev.landed = << >>

\* the number of updates after which a started timer is at or below 0
BreakUpdates == (BREAK_TIMER + FRAME_TIME - 1) \div FRAME_TIME

\* C26: once started, the timer of a breaking platform goes down by the step
\* time at every platform update, the body on the platform or not, and the
\* platform becomes inactive at the first update that leaves the timer at or
\* below 0, which is update number ceil(BREAK_TIMER / FRAME_TIME) = 7
C26_Countdown ==
    /\ [](\A i \in 1..Len(pm.platforms) :
               (pm.platforms[i].type = TYPE_BREAKING
                  /\ pm.platforms[i].break_timer # None) =>
                 /\ pm.platforms[i].is_active <=> pm.platforms[i].break_timer > 0
                 /\ \E k \in 0..BreakUpdates :
                       pm.platforms[i].break_timer = BREAK_TIMER - k * FRAME_TIME
                 /\ BreakUpdates = 7)
    /\ [][(ev'.op = "update" /\ ev'.ticks = 1 /\ ev'.dropped_platforms = 0) =>
            \A i \in 1..Len(pm.platforms) :
               (/\ pm.platforms[i].type = TYPE_BREAKING
                /\ pm.platforms[i].break_timer # None
                /\ pm.platforms[i].is_active) =>
                  pm'.platforms[i].break_timer
                    = pm.platforms[i].break_timer - FRAME_TIME]_vars

\* a platform broke at its seventh update while the body, having jumped off,
\* was above it
C26_BrokeWithBodyAway ==
    /\ ev.op = "update"
    /\ pm.platforms[1].type = TYPE_BREAKING
    /\ ~pm.platforms[1].is_active
    /\ pm.platforms[1].break_timer = BREAK_TIMER - BreakUpdates * FRAME_TIME
    /\ player.y + player.height < pm.platforms[1].y - Px(LANDING_TOLERANCE)

\* the platform lies fully inside the canvas
InsideCanvas(pl) == 0 <= pl.x /\ pl.x + pl.width <= Px(WINDOW_WIDTH)

\* C39: a moving platform created fully inside the canvas stays fully inside
\* after every update; an update whose step would take it to or past an edge
\* leaves its position unchanged and negates its velocity, any other update
\* moves it by the step and keeps the velocity
C39_MovingStaysInside ==
    /\ [](\A i \in 1..Len(pm.platforms) :
            pm.platforms[i].type = TYPE_MOVING => InsideCanvas(pm.platforms[i]))
    /\ [][(ev'.op = "update" /\ ev'.ticks = 1 /\ ev'.dropped_platforms = 0) =>
            \A i \in 1..Len(pm.platforms) :
               pm.platforms[i].type = TYPE_MOVING =>
                  LET pl == pm.platforms[i]
                      step == pl.x + pl.velocity * FRAME_TIME
                  IN  IF step + pl.width >= Px(WINDOW_WIDTH) \/ step <= 0
                      THEN /\ pm'.platforms[i].x = pl.x
                           /\ pm'.platforms[i].velocity = -pl.velocity
                      ELSE /\ pm'.platforms[i].x = step
                           /\ pm'.platforms[i].velocity = pl.velocity]_vars

\* the platform that set out rightwards near the right edge moves leftwards:
\* it has reversed there, and it lies inside the canvas
C39_ReversedAtRightEdge ==
    /\ ev.op = "update"
    /\ pm.platforms[1].type = TYPE_MOVING
    /\ pm.platforms[1].x > Px(WINDOW_WIDTH \div 2)
    /\ pm.platforms[1].velocity < 0
    /\ InsideCanvas(pm.platforms[1])

----------------------------------------------------------------------------
(* The game-over screen: a game that has ended with a final score, the
   leaderboard as get_leaderboard read it from its file, and the name entry
   with its Submit button *)

MaxBoard == 11
MaxPoints == 3

\* leaderboards in descending order of score: n entries, the first k with
\* the score hi and the others with the score lo
BoardOf(n, k, hi, lo) ==
    [i \in 1..n |-> [name |-> <<"a">>, score |-> IF i <= k THEN hi ELSE lo]]

\* what the player types: nothing, a name, a name with a blank, a name of
\* MAX_NAME_LENGTH + 1 characters
NameSet ==
    {<< >>, <<"b">>, <<"b", " ">>, [i \in 1..(MAX_NAME_LENGTH + 1) |-> "b"]}

\* Game.show_game_over_screen with the leaderboard lb
ShowGameOverScreen(lb, s) ==
    LET final_score == s.score \div One
    IN  [lb EXCEPT !.name_entry = IsHighScore(lb, final_score),
                   !.final_score = final_score]

InitBoard ==
    /\ \E n \in 0..MaxBoard, hi \in 0..MaxPoints, points \in 0..MaxPoints :
         \E k \in 0..n, lo \in 0..hi :
            /\ sm = [ScoreManagerNew EXCEPT !.score = points * One]
            /\ leaderboard = ShowGameOverScreen(
                                LeaderboardNew(BoardOf(n, k, hi, lo)), sm)
    /\ player = PlayerNew
    /\ camera = CameraNew
    /\ dm = DifficultyManagerNew
    /\ pm = PlatformManagerNew(DifficultyManagerNew)
    /\ pum = PowerupManagerNew
    /\ rng = 1
    /\ is_game_over = TRUE
    /\ ev = NoEvent
    /\ now = StartTime
    /\ last_update = StartTime
    /\ frame_accumulator = 0
    /\ pickups = 0
    /\ twin = 0
    /\ is_paused = FALSE
    /\ current_state = GAME_STATE_PLAYING
    /\ game_loop_running = TRUE
    /\ boss_key_active = FALSE
    /\ previous_state = NoState
    /\ save_data = NoFile

\* submit_score, the command of the Submit button
SubmitScore ==
    /\ leaderboard.name_entry
    /\ \E name \in NameSet :
         /\ leaderboard' =
              IF ValidateName(name)
              THEN [SaveScores(AddScore(leaderboard, name,
                                        leaderboard.final_score))
                      EXCEPT !.name_entry = FALSE]
              ELSE leaderboard
         /\ ev' = [NoEvent EXCEPT !.op = "submit", !.name = name]
    /\ UNCHANGED <<player, camera, sm, dm, pm, pum, rng, now, frame_accumulator,
                   last_update, is_game_over, pickups, twin, is_paused,
                   current_state, game_loop_running, boss_key_active,
                   previous_state, save_data>>

NextBoard == SubmitScore

SpecBoard == InitBoard /\ [][NextBoard]_vars

\* the entry the submit handler hands to add_score
Submitted == [name |-> ev.name, score |-> leaderboard.final_score]

\* C40: whenever is_high_score(score) returns True, a following
\* add_score(name, score) with a valid name leaves an entry with that name
\* and score in the leaderboard, for every leaderboard in descending order of
\* score, a full one whose lowest score equals score included
C40_HighScoreIsEntered ==
    (/\ ev.op = "submit"
     /\ ValidateName(ev.name))
       => \E i \in 1..Len(leaderboard.leaderboard) :
             leaderboard.leaderboard[i] = Submitted

----------------------------------------------------------------------------
(* Two platforms under the body: a field whose second platform lies level
   with the first or a few pixels above it, as load_game restores it from a
   file that lists such platforms, and the body standing on the first *)

MaxPairTicks == 3

\* how far the second platform lies above the first: level, inside the
\* landing band, at its end, and a generated spacing away
PairGapSet == {0, Px(LANDING_TOLERANCE) \div 2, Px(LANDING_TOLERANCE), Px(40)}

\* the kind of the second platform
PairKindSet == {TYPE_NORMAL, TYPE_BREAKING}

\* the field of RideField with its second platform over the first
PairField(ride, kind, gap, seed) ==
    Bind(RideField(ride, seed), LAMBDA f :
        [pm |-> [f.pm EXCEPT !.platforms[2].type = kind,
                             !.platforms[2].x = ride.x,
                             !.platforms[2].y = f.pm.platforms[1].y - gap,
                             !.platforms[2].width = RideWidth,
                             !.platforms[2].velocity = 0],
         rng |-> f.rng])

InitPair ==
    /\ \E seed \in 1..MaxSeed, ride \in RideSet, kind \in PairKindSet,
          gap \in PairGapSet :
         \E f \in {PairField(ride, kind, gap, seed)} :
            /\ pm = f.pm
            /\ rng = f.rng
            /\ player = [PlayerNew EXCEPT
                           !.x = ride.body_x,
                           !.y = f.pm.platforms[1].y - Px(PLAYER_HEIGHT)]
    /\ camera = CameraNew
    /\ sm = ScoreManagerNew
    /\ dm = DifficultyManagerNew
    /\ pum = PowerupManagerNew
    /\ is_game_over = FALSE
    /\ ev = NoEvent
    /\ now = StartTime
    /\ last_update = StartTime
    /\ frame_accumulator = 0
    /\ pickups = 0
    /\ twin = 0
    /\ Playing

\* game_loop one fixed step after the last call
PairTick ==
    /\ now + FRAME_TIME <= StartTime + MaxPairTicks * FRAME_TIME
    /\ GameLoopAt(now + FRAME_TIME)

NextPair ==
    \/ PairTick
    \/ Jump

SpecPair == InitPair /\ [][NextPair]_vars

\* C38: in a single tick the body lands on at most one platform: once one
\* platform has reported a landing in the collision loop, no other platform
\* of the collection reports a landing or starts its break timer in that tick
C38_OneLandingPerTick ==
    [][(ev'.op = "update" /\ ev'.ticks = 1) =>
          /\ Len(ev'.landed) <= 1
          /\ ev'.dropped_platforms = 0 =>
                \A i \in 1..Len(pm.platforms) :
                   (/\ pm.platforms[i].break_timer = None
                    /\ pm'.platforms[i].break_timer # None)
                      => ev'.landed = <<i>>]_vars

\* the body landed on the first of two platforms that both had it inside
\* their landing band; the second, a breaking platform, did not start its
\* timer
C38_LandedOnFirstOfTwo ==
    /\ ev.op = "update"
    /\ ev.landed = <<1>>
    /\ pm.platforms[2].is_active
    /\ pm.platforms[2].type = TYPE_BREAKING
    /\ pm.platforms[2].break_timer = None
    /\ pm.platforms[2].y <= pm.platforms[1].y
    /\ pm.platforms[1].y - pm.platforms[2].y <= Px(LANDING_TOLERANCE)
    /\ EnoughOverlap(pm.platforms[2], player)

----------------------------------------------------------------------------
(* The impulses of jump() between landings *)

\* the velocity an impulse of jump() sets
Impulse(p) == (JUMP_FORCE * p.boost_multipliers.jump) \div One

\* jump() has no impulse left for this body: it is in the air and the second
\* impulse is not enabled or is used
Spent(p) == p.is_jumping /\ (~p.double_jump_enabled \/ p.is_on_second_jump)

\* C27: a call of jump() that changes the body is the first impulse (body not
\* jumping; is_jumping set, is_on_second_jump cleared) or the second (double
\* jump enabled and not used; is_on_second_jump set), and any other call
\* changes nothing; is_jumping is cleared only by a tick that lands the body
\* and is_on_second_jump only by a first impulse: so between two landings
\* there is at most one first and, with double jump enabled, one second impulse
C27_ImpulsesBetweenLandings ==
    /\ [](Spent(player) => PlayerJump(player) = player)
    /\ [][/\ (/\ ev'.op = "jump"
              /\ player'.double_jump_enabled = player.double_jump_enabled) =>
               \/ /\ ~player.is_jumping
                  /\ player' = [player EXCEPT !.y_velocity = Impulse(player),
                                              !.is_jumping = TRUE,
                                              !.is_on_second_jump = FALSE]
               \/ /\ player.is_jumping
                  /\ player.double_jump_enabled
                  /\ ~player.is_on_second_jump
                  /\ player' = [player EXCEPT !.y_velocity = Impulse(player),
                                              !.is_on_second_jump = TRUE]
          /\ (player.is_jumping /\ ~player'.is_jumping) =>
               /\ ev'.op = "update"
               /\ player'.is_on_ground
               /\ player'.y_velocity = 0
          /\ (player.is_on_second_jump /\ ~player'.is_on_second_jump) =>
               /\ ev'.op = "jump"
               /\ ~player.is_jumping]_vars

\* the second impulse was just applied and a third call would change nothing
C27_BothImpulsesUsed ==
    /\ ev.op = "jump"
    /\ player.is_jumping
    /\ player.double_jump_enabled
    /\ player.is_on_second_jump
    /\ player.y_velocity = Impulse(player)
    /\ PlayerJump(player) = player

----------------------------------------------------------------------------
(* The direction keys: the handlers setup_controls binds to key press and
   release of the two directions, between ticks of a game, with and without
   a speed boost on the body *)

MaxBodyTicks == 3

InitBody ==
    /\ \E seed \in 1..MaxSeed, speed \in {One, SPEED_BOOST} :
         \E g \in {NewGame(seed)} :
            /\ player = [g.player EXCEPT !.boost_multipliers.speed = speed]
            /\ camera = g.camera
            /\ sm = g.sm
            /\ dm = g.dm
            /\ pm = g.pm
            /\ pum = g.pum
            /\ rng = seed
    /\ is_game_over = FALSE
    /\ ev = NoEvent
    /\ now = StartTime
    /\ last_update = StartTime
    /\ frame_accumulator = 0
    /\ pickups = 0
    /\ twin = 0
    /\ Playing

\* a key handler that calls one method of the player
KeyHandler(op, p) ==
    /\ player' = p
    /\ ev' = [NoEvent EXCEPT !.op = op]
    /\ UNCHANGED <<camera, sm, dm, pm, pum, rng, now, frame_accumulator,
                   last_update, is_game_over, pickups, twin>>
    /\ UNCHANGED shell

\* <Left> / <a>
StartMoveLeft == KeyHandler("start_move_left", PlayerStartMoveLeft(player))

\* <KeyRelease-Left> / <KeyRelease-a>
StopMoveLeft == KeyHandler("stop_move_left", PlayerStopMoveLeft(player))

\* <Right> / <d>
StartMoveRight == KeyHandler("start_move_right", PlayerStartMoveRight(player))

\* <KeyRelease-Right> / <KeyRelease-d>
StopMoveRight == KeyHandler("stop_move_right", PlayerStopMoveRight(player))

\* game_loop one fixed step after the last call
BodyTick ==
    /\ now + FRAME_TIME <= StartTime + MaxBodyTicks * FRAME_TIME
    /\ GameLoopAt(now + FRAME_TIME)

\* "Restart" with a direction key down: start_new_game calls Player.reset
BodyRestart ==
    /\ player.moving_left \/ player.moving_right
    /\ StartNewGame(now)

NextBody ==
    \/ StartMoveLeft
    \/ StopMoveLeft
    \/ StartMoveRight
    \/ StopMoveRight
    \/ BodyTick
    \/ BodyRestart

SpecBody == InitBody /\ [][NextBody]_vars

\* C28: stop_move_left clears moving_left and leaves x_velocity as it was if
\* right is held, and sets it to 0 if not; stop_move_right likewise with
\* the directions exchanged; nothing else of the body changes
C28_StopKeepsOtherDirection ==
    [][/\ ev'.op = "stop_move_left" =>
            player' = [player EXCEPT
                         !.moving_left = FALSE,
                         !.x_velocity = IF player.moving_right THEN @ ELSE 0]
       /\ ev'.op = "stop_move_right" =>
            player' = [player EXCEPT
                         !.moving_right = FALSE,
                         !.x_velocity = IF player.moving_left THEN @ ELSE 0]]_vars

\* left was released with right still held after left was pressed last: the
\* body keeps the leftward velocity
C28_ReleasedLeftRightHeld ==
    /\ ev.op = "stop_move_left"
    /\ player.moving_right
    /\ ~player.moving_left
    /\ player.x_velocity = -((MOVE_SPEED * player.boost_multipliers.speed) \div One)

\* C37: after any sequence of start_move_left, stop_move_left,
\* start_move_right, stop_move_right, ticks and reset, x_velocity = 0 if and
\* only if neither moving_left nor moving_right is set
C37_VelocityIffHeld ==
    (player.x_velocity = 0) <=> (~player.moving_left /\ ~player.moving_right)

\* a game restarted with a direction held: reset cleared flags and velocity
C37_RestartReleased ==
    /\ ev.op = "start"
    /\ player.x_velocity = 0
    /\ ~player.moving_left
    /\ ~player.moving_right

----------------------------------------------------------------------------
(* The boost reward of a tick *)

\* floor(score / BOOST_THRESHOLD)
BoostStep(score) == score \div (BOOST_THRESHOLD * One)

\* C29: a tick in which floor(score / BOOST_THRESHOLD) changes grants exactly
\* one boost, of a kind that was not a key of active_boosts before the tick,
\* starting at the time of the tick and applied to the body, unless all three
\* kinds were keys, and then it grants none; a tick in which the floor does
\* not change grants none and adds no kind; outside ticks active_boosts does
\* not change
C29_OneBoostPerStep ==
    [][IF ev'.op = "score"
       THEN IF BoostStep(sm'.score) # BoostStep(sm.score)
                 /\ ActiveKinds(sm.active_boosts) # {"speed", "jump", "gravity"}
            THEN \E b \in sm'.active_boosts :
                    /\ ev'.granted = {b}
                    /\ b.type \notin ActiveKinds(sm.active_boosts)
                    /\ b.start_time = now
                    /\ b.multiplier = BoostMultiplier(b.type)
                    /\ player'.boost_multipliers[b.type] = b.multiplier
                    /\ sm'.active_boosts \ {b} \subseteq sm.active_boosts
            ELSE /\ ev'.granted = {}
                 /\ sm'.active_boosts \subseteq sm.active_boosts
       ELSE sm'.active_boosts = sm.active_boosts]_vars

\* a tick took the score from below 20 to 20 or more under a multiplier and
\* granted a second boost next to the first
C29_SecondBoostGranted ==
    /\ ev.op = "score"
    /\ ev.rewarded
    /\ BoostStep(sm.score) = 2
    /\ Cardinality(ev.granted) = 1
    /\ Cardinality(sm.active_boosts) = 2
    /\ pickups > 0

----------------------------------------------------------------------------
(* The body and one powerup: the body stands on the highest platform of the
   initial field, a powerup near it; the player jumps and moves right between
   ticks *)

MaxPickupTicks == 4

\* where the powerup is, relative to the body: over it, touching its top
\* edge, just above, beside it to the right, touching its right edge, and
\* out of reach
PlaceSet ==
    {[dx |-> Px(5), dy |-> Px(5)],
     [dx |-> Px(5), dy |-> -Px(POWERUP_SIZE)],
     [dx |-> Px(5), dy |-> -Px(POWERUP_SIZE + 8)],
     [dx |-> Px(PLAYER_WIDTH + 8), dy |-> Px(5)],
     [dx |-> Px(PLAYER_WIDTH), dy |-> Px(5)],
     [dx |-> Px(PLAYER_WIDTH + 100), dy |-> -Px(200)]}

\* a rocket, and multipliers at the ends of MULTIPLIER_RANGE and
\* MULTIPLIER_DURATION_RANGE
PowerupKindSet ==
    {[type |-> TYPE_ROCKET, multiplier |-> None, duration |-> None],
     [type |-> TYPE_MULTIPLIER, multiplier |-> MULTIPLIER_MIN,
      duration |-> MULTIPLIER_DURATION_MIN * MilliPerUnit],
     [type |-> TYPE_MULTIPLIER, multiplier |-> MULTIPLIER_MAX,
      duration |-> MULTIPLIER_DURATION_MAX * MilliPerUnit]}

InitPickup ==
    /\ \E seed \in 1..MaxSeed, place \in PlaceSet, kind \in PowerupKindSet :
         \E f \in {GenerateInitialPlatforms(PlatformManagerNew(DifficultyManagerNew),
                                            DifficultyManagerNew, seed)} :
            LET top == f.pm.platforms[Len(f.pm.platforms)]
                body == [PlayerNew EXCEPT
                           !.x = top.x + (top.width - Px(PLAYER_WIDTH)) \div 2,
                           !.y = top.y - Px(PLAYER_HEIGHT)]
            IN  /\ player = body
                /\ camera = CameraNew
                /\ sm = [ScoreManagerNew EXCEPT
                           !.highest_height = top.y,
                           !.score = ((Px(WINDOW_HEIGHT) - top.y - 1)
                                        \div Px(SCORE_THRESHOLD)) * One]
                /\ dm = DifficultyManagerNew
                /\ pm = f.pm
                /\ pum = [powerups |->
                            << [x |-> body.x + place.dx,
                                y |-> body.y + place.dy,
                                type |-> kind.type,
                                multiplier |-> kind.multiplier,
                                duration |-> kind.duration] >>,
                          last_check_height |-> body.y]
                /\ rng = f.rng
    /\ is_game_over = FALSE
    /\ ev = NoEvent
    /\ now = StartTime
    /\ last_update = StartTime
    /\ frame_accumulator = 0
    /\ pickups = 0
    /\ twin = 0
    /\ Playing

\* game_loop one fixed step after the last call
PickupTick ==
    /\ now + FRAME_TIME <= StartTime + MaxPickupTicks * FRAME_TIME
    /\ GameLoopAt(now + FRAME_TIME)

NextPickup ==
    \/ PickupTick
    \/ Jump
    \/ StartMoveRight
    \/ StopMoveRight

SpecPickup == InitPickup /\ [][NextPickup]_vars

\* the powerups of a list that overlap the body
Touched(powerups, body) ==
    {i \in 1..Len(powerups) : PowerupCollides(powerups[i], body)}

\* C30: in a tick, every powerup that overlaps the body where Player.update
\* has put it is collected: its effect is applied (a rocket sets y_velocity,
\* a multiplier sets the score multiplier and its end time) and it is not in
\* the list after the tick; a powerup that does not overlap is not collected
\* and no effect is applied; outside ticks the list does not change. So no
\* powerup is left to be collected a second time
C30_CollectedOnceOnOverlap ==
    [][IF ev'.op = "update" /\ ev'.ticks = 1
       THEN LET body == PlayerUpdate(player, FRAME_TIME)
                hit == Touched(pum.powerups, body)
            IN  /\ ev'.collected = Cardinality(hit)
                /\ \A i \in hit :
                      /\ \A k \in 1..Len(pum'.powerups) :
                            pum'.powerups[k] # pum.powerups[i]
                      /\ IF pum.powerups[i].type = TYPE_ROCKET
                         THEN /\ player'.y_velocity
                                   = (2 * JUMP_FORCE * player'.boost_multipliers.jump)
                                        \div One
                              /\ sm'.multiplier = sm.multiplier
                         ELSE /\ sm'.multiplier = pum.powerups[i].multiplier
                              /\ sm'.multiplier_end_time
                                   = now' + pum.powerups[i].duration
                              /\ player'.y_velocity \in {body.y_velocity, 0}
                /\ hit = {} =>
                      /\ sm'.multiplier = sm.multiplier
                      /\ sm'.multiplier_end_time = sm.multiplier_end_time
                      /\ player'.y_velocity \in {body.y_velocity, 0}
                /\ \A i \in (1..Len(pum.powerups)) \ hit :
                      KeepPowerup(pum.powerups[i], body) =>
                         \E k \in 1..Len(pum'.powerups) :
                            pum'.powerups[k] = pum.powerups[i]
                /\ Touched(pum'.powerups, body) = {}
       ELSE pum' = pum]_vars

\* a rising body ran into a rocket from below and the rocket is gone
C30_CollectedRising ==
    /\ ev.op = "update"
    /\ ev.collected = 1
    /\ ev.pre_y < Px(WINDOW_HEIGHT - PLAYER_HEIGHT)
    /\ now > StartTime + FRAME_TIME
    /\ player.y_velocity = (2 * JUMP_FORCE * player.boost_multipliers.jump) \div One
    /\ \A k \in 1..Len(pum.powerups) : pum.powerups[k].type # TYPE_ROCKET

----------------------------------------------------------------------------
(* The driver while the game is paused or over *)

\* C31: every tick the driver runs finds the game neither paused nor over;
\* a call of game_loop runs no more ticks than the remainder plus the time
\* since last_update pays for, and last_update is never older than the
\* previous call of game_loop (it changes only to the time of the call that
\* changes it, and the clock never goes back), so the time of a pause is not
\* made up for after the game is resumed
C31_NoTickWhilePausedOrOver ==
    [][/\ ev'.op = "update" =>
            /\ ~is_paused
            /\ ~is_game_over
            /\ ev'.after_death = 0
       /\ (ev'.op \in {"idle", "update"} /\ (is_paused \/ is_game_over)) =>
            /\ ev'.ticks = 0
            /\ <<player, camera, sm, dm, pm, pum>>' = <<player, camera, sm, dm, pm, pum>>
       /\ (ev'.op \in {"idle", "update"} /\ Truthy(last_update)) =>
            ev'.ticks * FRAME_TIME <= frame_accumulator + (now' - last_update)
       /\ (ev'.op \in {"idle", "update"} /\ game_loop_running) => last_update' = now'
       /\ last_update' # last_update => last_update' \in {now', None}
       /\ now' >= now]_vars

----------------------------------------------------------------------------
(* The difficulty level as a function of the score *)

\* C32: after every tick difficulty_level is
\* min(floor(score / DIFFICULTY_THRESHOLD), MAX_DIFFICULTY_LEVEL) for the
\* score that tick's ScoreManager.update returned (the score in tenths of a
\* point), under score multipliers of 1.5 and 3.0 as without one
C32_LevelFromScore ==
    ev.op = "score" =>
        LET points == sm.score \div One
            tens == points \div DIFFICULTY_THRESHOLD
        IN  dm.difficulty_level
              = IF tens < MAX_DIFFICULTY_LEVEL THEN tens ELSE MAX_DIFFICULTY_LEVEL

\* under a multiplier the score passed 60 in steps of three points and the
\* level stands at its cap
C32_LevelCapped ==
    /\ ev.op = "score"
    /\ ev.passed
    /\ pickups > 0
    /\ sm.multiplier = MULTIPLIER_MAX
    /\ sm.score >= 6 * DIFFICULTY_THRESHOLD * One
    /\ dm.difficulty_level = MAX_DIFFICULTY_LEVEL

----------------------------------------------------------------------------
(* The difficulty manager on its own: update_difficulty called with a score
   in the level it is in or in the next one, calculate_platform_type, and
   calculate_type_weights applied to a factor *)

\* the factors calculate_type_weights is applied to, in tenths
FactorSet == 0..MAX_DIFFICULTY_FACTOR

InitParams ==
    /\ \E seed \in 1..MaxSeed :
         \E g \in {NewGame(seed)} :
            /\ player = g.player
            /\ camera = g.camera
            /\ sm = g.sm
            /\ dm = g.dm
            /\ pm = g.pm
            /\ pum = g.pum
            /\ rng = seed
    /\ is_game_over = FALSE
    /\ ev = NoEvent
    /\ now = StartTime
    /\ last_update = StartTime
    /\ frame_accumulator = 0
    /\ pickups = 0
    /\ twin = 0
    /\ Playing

\* DifficultyManager.update_difficulty(score) with its on_param_update
\* callback, for a score half way through the present level or at the start
\* of the next
ParamsUpdate ==
    /\ \E score \in {(dm.difficulty_level * DIFFICULTY_THRESHOLD
                        + DIFFICULTY_THRESHOLD \div 2) * One,
                     (dm.difficulty_level + 1) * DIFFICULTY_THRESHOLD * One} :
         \E df \in {UpdateDifficulty(dm, score)} :
            /\ dm' = df.dm
            /\ pm' = IF df.updated
                     THEN UpdateGenerationParams(pm, df.dm.platform_params)
                     ELSE pm
            /\ ev' = [NoEvent EXCEPT !.op = "difficulty",
                                     !.updated = df.updated,
                                     !.factor = df.dm.difficulty_factor]
    /\ UNCHANGED <<player, camera, sm, pum, rng, now, frame_accumulator,
                   last_update, is_game_over, pickups, twin>>
    /\ UNCHANGED shell

\* DifficultyManager.calculate_platform_type: one draw of random.choices
\* with the weights of the present factor
DrawType ==
    /\ rng' = RngNext(rng)
    /\ ev' = [NoEvent EXCEPT !.op = "type",
                             !.factor = dm.difficulty_factor,
                             !.weights = CalculateTypeWeights(dm.difficulty_factor),
                             !.available = <<CalculatePlatformType(dm, rng)>>]
    /\ UNCHANGED <<player, camera, sm, dm, pm, pum, now, frame_accumulator,
                   last_update, is_game_over, pickups, twin>>
    /\ UNCHANGED shell

\* DifficultyManager.calculate_type_weights at a factor
Weigh ==
    /\ \E factor \in FactorSet :
         ev' = [NoEvent EXCEPT !.op = "weights",
                               !.factor = factor,
                               !.weights = CalculateTypeWeights(factor)]
    /\ UNCHANGED <<player, camera, sm, dm, pm, pum, rng, now, frame_accumulator,
                   last_update, is_game_over, pickups, twin>>
    /\ UNCHANGED shell

NextParams ==
    \/ ParamsUpdate
    \/ DrawType
    \/ Weigh

SpecParams == InitParams /\ [][NextParams]_vars

C34_WeightsCappedAndMonotone ==
    ev.op = "weights" =>
        /\ ev.weights[1] >= 30
        /\ ev.weights[2] <= 40
        /\ ev.weights[3] <= 40
        /\ ev.weights[4] <= 20
        /\ \A lower \in {f \in FactorSet : f <= ev.factor} :
              /\ CalculateTypeWeights(lower)[1] >= ev.weights[1]
              /\ \A k \in 2..4 : CalculateTypeWeights(lower)[k] <= ev.weights[k]

\* at factor 0.8 the normal kind stands on its floor
C34_FloorReached ==
    /\ ev.op = "weights"
    /\ ev.factor = 8
    /\ ev.weights = <<30, 32, 32, 16>>

----------------------------------------------------------------------------
(* The body's flags at the end of a tick *)

\* the step of Player.update takes the body to the ground or below it
Clamped(p) ==
    LET vy == p.y_velocity + (GRAVITY * p.boost_multipliers.gravity) \div One
    IN  p.y + vy * FRAME_TIME >= Px(WINDOW_HEIGHT) - p.height

\* C35: at the end of every tick is_on_ground implies y_velocity = 0 and
\* is_jumping False, and is_on_ground is True at the end of a tick exactly
\* when Player.update clamped the body to the ground or a platform reported a
\* landing in that tick
C35_GroundedAtRest ==
    /\ [](ev.op = "update" =>
            (player.is_on_ground =>
                (player.y_velocity = 0 /\ ~player.is_jumping)))
    /\ [][(ev'.op = "update" /\ ev'.ticks = 1) =>
            (player'.is_on_ground <=> (Clamped(player) \/ ev'.landed # << >>))]_vars

\* the body came down on a platform above the ground
C35_LandedOnPlatform ==
    /\ ev.op = "update"
    /\ player.is_on_ground
    /\ ev.landed # << >>
    /\ ev.pre_vy > GRAVITY
    /\ player.y < Px(WINDOW_HEIGHT) - player.height
    /\ player.y_velocity = 0
    /\ ~player.is_jumping

----------------------------------------------------------------------------
(* Boosts over several games: the score and difficulty steps of Game.update
   with the body's height an input, multiplier pickups, the wall clock, and
   "Restart" pressed while a boost is active *)

MaxBoostClimb == 12

\* a tick with the body at height h
BoostClimb ==
    \E h \in HeightSet :
       /\ h >= Px(WINDOW_HEIGHT - PLAYER_HEIGHT) - MaxBoostClimb * Px(SCORE_THRESHOLD)
       /\ Climb(h)

\* Game.start_new_game from a game with an active boost
BoostRestart ==
    /\ sm.active_boosts # {}
    /\ StartNewGame(now)

NextBoost ==
    \/ BoostClimb
    \/ PickupAny
    \/ Wait
    \/ BoostRestart

SpecBoost == InitScore /\ [][NextBoost]_vars

\* C36: in every state of a game, and after a restart, the body's factor of
\* each kind is the multiplier of the active boost of that kind if there is
\* one and 1.0 if there is none
C36_FactorsAgreeWithBoosts ==
    \A k \in {"speed", "jump", "gravity"} :
       /\ \A b \in sm.active_boosts :
             b.type = k => player.boost_multipliers[k] = b.multiplier
       /\ (\A b \in sm.active_boosts : b.type # k) =>
             player.boost_multipliers[k] = One

\* a tick removed an expired boost and the body's factor of its kind is
\* back at 1.0
C36_BoostExpired ==
    /\ ev.op = "score"
    /\ ev.expired # {}
    /\ \A b \in ev.expired :
          /\ b.multiplier # One
          /\ player.boost_multipliers[b.type] = One
====
